---- MODULE Spec2Model ----
(***************************************************************************)
(* A model of the fluid-settings daemon: the value store (settings.cpp,    *)
(* value.cpp), the subscription registry and change dispatcher             *)
(* (server.cpp), the message front-end (messenger.cpp) and the peer        *)
(* replication links (listener.cpp, replicator_in.cpp, replicator_out.cpp).*)
(*                                                                         *)
(* Strings that are formatted or parsed by the code (setting values, the   *)
(* serialized value sets of a VALUE_CHANGED message) are sequences of      *)
(* one-character strings, so that escaping, tokenizing and integer         *)
(* conversion are computed the way the code computes them.  Names of       *)
(* settings, commands and fixed texts are plain strings.                   *)
(***************************************************************************)
EXTENDS Integers, Sequences, FiniteSets, TLC

\* ------------------------------------------------------------------------
\* Bounds of the model
\* ------------------------------------------------------------------------

\* number of inputs handled in one behaviour of the specification of the
\* two daemons and their peer links
MaxSteps == 3

\* number of gossip messages handled in one behaviour of the specification
\* of the peer scenarios
MaxGossip == 2

\* number of messages handled in one behaviour of the specification of the
\* value store of one daemon
MaxStoreSteps == 4

\* number of messages handled in one behaviour of the specification of the
\* subscriptions of one daemon
MaxSubSteps == 3

\* capacity of one direction of a peer link
MaxQueue == 2

\* number of TCP links the two listeners accept in one behaviour
MaxLinks == 2

\* length of the sequence of set() calls of the merge specification
MaxLen == 3

\* the number of messages the daemon of SpecGet receives
MaxGetSteps == 3

\* ------------------------------------------------------------------------
\* Program constants
\* ------------------------------------------------------------------------

\* the --save-timeout and --gossip-timeout delays, in ticks of the clock
SaveTimeout == 2

GossipTimeout == 2

HIGHEST_PRIORITY == -1

ADMINISTRATOR_PRIORITY == 50

MINIMUM_PRIORITY == 0

MAXIMUM_PRIORITY == 99

\* 2022-07-21T00:00:00Z in seconds since the epoch
g_oldest_fluid_setting_date == 1658361600

\* a timestamp_t (snapdev::timespec_ex) is <<tv_sec, tv_nsec>>
g_oldest_fluid_setting == <<g_oldest_fluid_setting_date, 0>>

FIELD_SEPARATOR == "|"

VALUE_SEPARATOR == "\n"

\* ------------------------------------------------------------------------
\* The environment: daemons, schema, inputs
\* ------------------------------------------------------------------------

\* the two daemons; a daemon's number is also its listener address
Daemons == {1, 2}

\* definitions that let every name of the model through
Schema_any == {"a-b", "c", "zz"}

\* the setting definitions both daemons loaded
Schema == {"a-b", "c"}

\* the names a message may carry which no definition declares
UnknownNames == {"zz"}

\* values are strings, as sequences of characters
Values == {<<"x">>, <<"y">>}

\* the default value of a definition, as a set: empty when it has none
SchemaDefault(name) == IF name = "a-b" THEN {<<"e", "n">>} ELSE {}

\* the timestamps a message may carry
Stamps ==
    { <<g_oldest_fluid_setting_date - 1, 0>>
    , <<g_oldest_fluid_setting_date, 0>>
    , <<g_oldest_fluid_setting_date + 1, 0>> }

\* the clients (server, service) that talk to a daemon; the second one has
\* an empty server name
Clients == { <<"s1", "svc">>, <<"", "svc">> }

\* the envelope destination of a message sent to a daemon
DaemonService == <<"s0", "fluid_settings">>

\* ------------------------------------------------------------------------
\* Strings
\* ------------------------------------------------------------------------

Min(S) == CHOOSE x \in S : \A y \in S : x <= y

IsPrefix(p, s) == Len(p) <= Len(s) /\ SubSeq(s, 1, Len(p)) = p

Digits == <<"0", "1", "2", "3", "4", "5", "6", "7", "8", "9">>

DigitChars == {Digits[i] : i \in 1..10}

DigitValue(c) == (CHOOSE i \in 1..10 : Digits[i] = c) - 1

RECURSIVE to_string(_)
\* std::to_string() of an integer
to_string(n) ==
    IF n < 0 THEN <<"-">> \o to_string(0 - n)
    ELSE IF n < 10 THEN <<Digits[n + 1]>>
    ELSE to_string(n \div 10) \o <<Digits[(n % 10) + 1]>>

RECURSIVE ParseNat(_)
ParseNat(s) ==
    IF s = <<>> THEN 0
    ELSE ParseNat(SubSeq(s, 1, Len(s) - 1)) * 10 + DigitValue(s[Len(s)])

AllDigits(s) == s # <<>> /\ \A i \in 1..Len(s) : s[i] \in DigitChars

\* advgetopt::validator_integer::convert_string(): <<ok, value>>
convert_string(s) ==
    IF AllDigits(s) THEN <<TRUE, ParseNat(s)>>
    ELSE IF s # <<>> /\ Head(s) = "-" /\ AllDigits(Tail(s))
        THEN <<TRUE, 0 - ParseNat(Tail(s))>>
    ELSE <<FALSE, 0>>

RECURSIVE Zeroes(_)
Zeroes(n) == IF n <= 0 THEN <<>> ELSE <<"0">> \o Zeroes(n - 1)

\* a text of the seconds of the timestamp only
to_sec_string(t) == to_string(t[1])

\* std::to_string(t.to_nsec()): tv_sec * 1000000000 + tv_nsec in decimal
to_nsec_string(t) ==
    IF t[1] = 0 THEN to_string(t[2])
    ELSE to_string(t[1])
            \o Zeroes(9 - Len(to_string(t[2]))) \o to_string(t[2])

\* the conversion of a 64 bit count of nanoseconds, given in decimal, to a
\* timestamp_t: <<ok, timestamp>>
convert_nsec(s) ==
    IF ~AllDigits(s) THEN <<FALSE, <<0, 0>>>>
    ELSE IF Len(s) <= 9 THEN <<TRUE, <<0, ParseNat(s)>>>>
    ELSE <<TRUE, << ParseNat(SubSeq(s, 1, Len(s) - 9))
                  , ParseNat(SubSeq(s, Len(s) - 8, Len(s))) >>>>

RECURSIVE string_replace_many(_, _)
\* snapdev::string_replace_many(): one pass over the input, at each
\* position the first listed search string that matches is replaced
string_replace_many(s, pairs) ==
    IF s = <<>> THEN <<>>
    ELSE LET m == {i \in 1..Len(pairs) : IsPrefix(pairs[i][1], s)}
         IN IF m = {}
            THEN <<Head(s)>> \o string_replace_many(Tail(s), pairs)
            ELSE pairs[Min(m)][2]
                    \o string_replace_many(
                            SubSeq(s, Len(pairs[Min(m)][1]) + 1, Len(s))
                          , pairs)

RECURSIVE tokenize_string(_, _)
\* snapdev::tokenize_string() with one single-character delimiter and
\* trim_empty = false: empty tokens are kept
tokenize_string(s, delimiter) ==
    LET hits == {i \in 1..Len(s) : s[i] = delimiter}
    IN IF hits = {} THEN <<s>>
       ELSE <<SubSeq(s, 1, Min(hits) - 1)>>
               \o tokenize_string(SubSeq(s, Min(hits) + 1, Len(s)), delimiter)

\* std::replace(name.begin(), name.end(), '_', '-') on the names of the
\* model
Normalize(name) == IF name = "a_b" THEN "a-b" ELSE name

\* ------------------------------------------------------------------------
\* timestamp_t
\* ------------------------------------------------------------------------

TsLess(a, b) == a[1] < b[1] \/ (a[1] = b[1] /\ a[2] < b[2])

\* ------------------------------------------------------------------------
\* value.cpp, value.h
\* ------------------------------------------------------------------------

\* value::set_value() throws fluid_settings_parameter_error
\* a value::set_value() without its two checks
value_set_value_never_throws(priority, timestamp) == FALSE

value_set_value_throws(priority, timestamp) ==
    \/ priority < MINIMUM_PRIORITY
    \/ priority > MAXIMUM_PRIORITY
    \/ TsLess(timestamp, g_oldest_fluid_setting)

\* a value object after value::set_value()
value_set_value(v, priority, timestamp) ==
    [f_value |-> v, f_priority |-> priority, f_timestamp |-> timestamp]

\* value::operator < () compares priorities only
value_less(lhs, rhs) == lhs.f_priority < rhs.f_priority

\* value::set_t::find(): the set of the elements equivalent to v (none or
\* one)
set_find(s, v) == {e \in s : ~value_less(e, v) /\ ~value_less(v, e)}

\* value::set_t::insert(): std::set keeps the element it already holds when
\* an equivalent one is inserted
set_insert(s, v) == IF set_find(s, v) = {} THEN s \cup {v} ELSE s

\* the elements of a value::set_t in the order of iteration
RECURSIVE set_in_order(_)
set_in_order(s) ==
    IF s = {} THEN <<>>
    ELSE LET first == CHOOSE e \in s : \A o \in s : ~value_less(o, e)
         IN <<first>> \o set_in_order(s \ {first})

\* ------------------------------------------------------------------------
\* settings.cpp
\*
\* The operators below take and return the state of one daemon while it
\* runs one handler:
\*   values     settings::f_values, a map from names to value::set_t
\*   defined    is_defined() of the advgetopt option of each schema name
\*   listeners  server::f_listeners
\*   timer      server::f_save_timer: is_enabled() and the ticks left before
\*              its timeout date
\*   remote     server::f_remote_change
\*   out        the messages sent through the messenger, in order
\*   bcast      the messages sent to peer links, in order
\*   thrown     an exception left the handler
\* ------------------------------------------------------------------------

\* advgetopt::option_info::set_value() followed by is_defined(): the
\* definitions of the model are of type string and accept every value
option_set_value(name, new_value) == TRUE

\* the outcome of settings::get_value(): <<result, value>>
\* (the result "out_of_range" stands for the exception value::set_value()
\* throws when the priority searched is outside of [0,99])
settings_get_value(st, name, priority, all) ==
    IF name \notin Schema THEN <<"GET_RESULT_UNKNOWN", <<>>>>
    ELSE IF ~st.defined[name]
        THEN IF SchemaDefault(name) # {}
             THEN <<"GET_RESULT_DEFAULT", CHOOSE v \in SchemaDefault(name) : TRUE>>
             ELSE <<"GET_RESULT_NOT_SET", <<>>>>
    ELSE IF name \notin DOMAIN st.values
        THEN <<"GET_RESULT_ERROR", <<>>>>
    ELSE IF st.values[name] = {}
        THEN IF SchemaDefault(name) # {}
             THEN <<"GET_RESULT_DEFAULT", CHOOSE v \in SchemaDefault(name) : TRUE>>
             ELSE <<"GET_RESULT_NOT_SET", <<>>>>
    ELSE IF all
        THEN LET l == set_in_order(st.values[name])
                 join[i \in 0..Len(l)] ==
                    IF i = 0 THEN <<>>
                    ELSE (IF join[i - 1] # <<>> THEN join[i - 1] \o <<",">>
                                                ELSE join[i - 1])
                         \o string_replace_many(
                                  l[i].f_value
                                , << << <<",">>, <<"\\", ",">> >> >>)
             IN <<"GET_RESULT_SUCCESS", join[Len(l)]>>
    ELSE IF priority = HIGHEST_PRIORITY
        THEN LET l == set_in_order(st.values[name])
             IN <<"GET_RESULT_SUCCESS", l[Len(l)].f_value>>
    ELSE IF value_set_value_throws(priority, g_oldest_fluid_setting)
        THEN <<"out_of_range", <<>>>>
    ELSE LET vp == set_find(st.values[name]
                           , value_set_value(<<>>, priority, g_oldest_fluid_setting))
         IN IF vp = {}
            THEN <<"GET_RESULT_PRIORITY_NOT_FOUND", <<>>>>
            ELSE <<"GET_RESULT_SUCCESS", (CHOOSE e \in vp : TRUE).f_value>>

\* the names of the schema in the order of a std::set<std::string>
SchemaOrder == <<"a-b", "c">>

RECURSIVE join_strings(_, _)
\* snapdev::join_strings()
join_strings(l, sep) ==
    IF l = <<>> THEN ""
    ELSE IF Len(l) = 1 THEN l[1]
    ELSE l[1] \o sep \o join_strings(Tail(l), sep)

\* settings::list_of_options()
settings_list_of_options == join_strings(SchemaOrder, ",")

\* a map with one more or one changed entry
map_put(m, k, v) == [x \in DOMAIN m \cup {k} |-> IF x = k THEN v ELSE m[x]]

\* a map without an entry
map_erase(m, k) == [x \in DOMAIN m \ {k} |-> m[x]]

\* settings::set_value(): the state afterwards, the returned bool in ret
settings_set_value(st, name, new_value, priority, timestamp) ==
    IF name \notin Schema THEN [st EXCEPT !.ret = FALSE]
    ELSE LET s1 == [st EXCEPT !.defined[name] = option_set_value(name, new_value)]
             v == value_set_value(new_value, priority, timestamp)
         IN IF ~s1.defined[name] THEN [s1 EXCEPT !.ret = FALSE]
            ELSE IF value_set_value_throws(priority, timestamp)
                THEN [s1 EXCEPT !.thrown = TRUE, !.ret = FALSE]
            ELSE IF name \notin DOMAIN s1.values
                THEN [s1 EXCEPT !.values = map_put(s1.values, name, set_insert({}, v))
                              , !.ret = TRUE]
            ELSE LET vp == set_find(s1.values[name], v)
                 IN IF vp = {}
                    THEN [s1 EXCEPT !.values[name] = set_insert(s1.values[name], v)
                                  , !.ret = TRUE]
                    ELSE IF TsLess((CHOOSE e \in vp : TRUE).f_timestamp, timestamp)
                        THEN [s1 EXCEPT !.values[name] = set_insert(s1.values[name], v)
                                      , !.ret = TRUE]
                    ELSE [s1 EXCEPT !.ret = TRUE]

\* settings::reset_setting(): the state afterwards, the returned bool in ret
settings_reset_setting(st, name, priority) ==
    IF name \notin Schema THEN [st EXCEPT !.ret = FALSE]
    ELSE LET s1 == [st EXCEPT !.defined[name] = FALSE]
         IN IF name \notin DOMAIN s1.values THEN [s1 EXCEPT !.ret = FALSE]
            ELSE LET vp == set_find(s1.values[name]
                                   , value_set_value(<<>>, priority, g_oldest_fluid_setting))
                     rest == s1.values[name] \ vp
                 IN IF vp = {} THEN [s1 EXCEPT !.ret = FALSE]
                    ELSE IF rest = {}
                        THEN [s1 EXCEPT !.values = map_erase(s1.values, name)
                                      , !.ret = TRUE]
                    ELSE [s1 EXCEPT !.values[name] = rest, !.ret = TRUE]

RECURSIVE settings_load(_, _)
\* settings::load(): file is the list of the parameters of the settings
\* file, each with the name, the text of the priority (the last section of
\* the key) and the text of the value; a conversion that fails leaves 0
settings_load(st, file) ==
    IF file = <<>> \/ st.thrown THEN st
    ELSE LET p == Head(file)
             priority == convert_string(p.priority)[2]
             hits == {k \in 1..Len(p.value) : p.value[k] = "|"}
         IN IF hits = {}
            THEN settings_load(st, Tail(file))
            ELSE LET pos == Min(hits)
                     timestamp_nsec == convert_nsec(SubSeq(p.value, 1, pos - 1))[2]
                 IN settings_load(
                          settings_set_value( st
                                            , p.name
                                            , SubSeq(p.value, pos + 1, Len(p.value))
                                            , priority
                                            , timestamp_nsec)
                        , Tail(file))

\* the text settings::serialize_value() writes for one value
serialize_one(s) ==
    to_string(s.f_priority)
        \o <<FIELD_SEPARATOR>>
        \o to_nsec_string(s.f_timestamp)
        \o <<FIELD_SEPARATOR>>
        \o string_replace_many(
                  s.f_value
                , << << <<FIELD_SEPARATOR>>, <<"\\", "P">> >>
                   , << <<"\\">>, <<"\\", "S">> >>
                   , << <<"\n">>, <<"\\", "n">> >>
                   , << <<"\r">>, <<"\\", "r">> >> >>)
        \o <<VALUE_SEPARATOR>>

\* settings::serialize_value()
serialize_value(values, name) ==
    IF name \notin DOMAIN values THEN <<>>
    ELSE LET l == set_in_order(values[name])
             cat[i \in 0..Len(l)] ==
                IF i = 0 THEN <<>> ELSE cat[i - 1] \o serialize_one(l[i])
         IN cat[Len(l)]

\* ------------------------------------------------------------------------
\* Messages (ed::message)
\*
\* command, the destination (server, service) and the parameters; a
\* parameter is a set, empty when the message does not carry it.  cmd is
\* the parameter named "command" of an INVALID reply.
\* ------------------------------------------------------------------------

EmptyMessage ==
    [ command |-> "", server |-> "", service |-> ""
    , name |-> {}, names |-> {}, value |-> {}, values |-> {}
    , priority |-> {}, timestamp |-> {}
    , message |-> {}, error |-> {}, errcnt |-> {}, default |-> {}
    , reason |-> {}, my_ip |-> {}, cmd |-> {}, error_command |-> {}
    , options |-> {} ]

\* ed::message::reply_to(): the reply goes to the sender of the request
reply_to(from) ==
    [EmptyMessage EXCEPT !.server = from[1], !.service = from[2]]

\* ------------------------------------------------------------------------
\* server.cpp
\* ------------------------------------------------------------------------

\* server::server_service::operator < () on the clients of the model: the
\* clients in increasing order
ClientOrder == << <<"", "svc">>, <<"s0", "fluid_settings">>, <<"s1", "svc">> >>

\* the elements of a server_service::set_t in the order of iteration
server_service_in_order(S) ==
    SelectSeq(ClientOrder, LAMBDA c : c \in S)

\* advgetopt::split_string() of a comma separated list, given as the
\* sequence of its items: empty items are dropped
split_string(names) == SelectSeq(names, LAMBDA n : n # "")

\* std::replace(names.begin(), names.end(), '_', '-') on a list of names
NormalizeList(names) == [i \in 1..Len(names) |-> Normalize(names[i])]

\* the conversion of a get_result_t to the bool that server::value_changed()
\* tests: GET_RESULT_ERROR is the enumerator 0
get_result_as_bool(r) == r # "GET_RESULT_ERROR"

\* the messages server::value_changed() sends to the listeners of a name
NewValueMessages(st, name, S) ==
    LET r == settings_get_value(st, name, HIGHEST_PRIORITY, FALSE)
        l == server_service_in_order(S)
    IN [ i \in 1..Len(l) |->
            IF get_result_as_bool(r[1])
            THEN [EmptyMessage EXCEPT !.command = "NEW_VALUE"
                                    , !.value = {r[2]}
                                    , !.server = l[i][1]
                                    , !.service = l[i][2]]
            ELSE [EmptyMessage EXCEPT !.command = "NEW_VALUE"
                                    , !.message = {"value undefined"}
                                    , !.server = l[i][1]
                                    , !.service = l[i][2]] ]

\* the message server::value_changed() broadcasts to the replicators
ValueChangedMessage(st, name) ==
    [EmptyMessage EXCEPT !.name = {name}
                       , !.values = {serialize_value(st.values, name)}]

\* a broadcast that does not look at f_remote_change
BroadcastChange_unguarded(st, name) ==
    [st EXCEPT !.bcast = Append(st.bcast
                    , [to |-> "all", msg |-> ValueChangedMessage(st, name)])]

\* the part of server::value_changed() that tells the other daemons
BroadcastChange(st, name) ==
    IF st.remote THEN st
    ELSE [st EXCEPT !.bcast = Append(st.bcast
                        , [to |-> "all", msg |-> ValueChangedMessage(st, name)])]

\* a value_changed() that sets the delay of the save timer every time
arm_save_timer_always(timer) == [enabled |-> TRUE, left |-> SaveTimeout]

\* the first statement of server::value_changed(): set_timeout_delay()
\* places the timeout date one delay after the present time
arm_save_timer(timer) ==
    IF ~timer.enabled
    THEN [enabled |-> TRUE, left |-> SaveTimeout]
    ELSE timer

\* server::value_changed()
value_changed(st, name) ==
    LET s1 == [st EXCEPT !.timer = arm_save_timer(st.timer)]
        \* f_listeners[name] creates the entry of the map
        s2 == IF name \in DOMAIN s1.listeners THEN s1
              ELSE [s1 EXCEPT !.listeners = map_put(s1.listeners, name, {})]
        s3 == [s2 EXCEPT !.out = s2.out
                            \o NewValueMessages(s2, name, s2.listeners[name])]
    IN BroadcastChange(s3, name)

\* server::set_value()
server_set_value(st, name, v, priority, timestamp) ==
    LET s1 == settings_set_value(st, name, v, priority, timestamp)
    IN IF s1.thrown THEN s1
       ELSE IF s1.ret THEN [value_changed(s1, name) EXCEPT !.ret = TRUE]
       ELSE [s1 EXCEPT !.ret = FALSE]

\* server::reset_setting()
server_reset_setting(st, name, priority) ==
    LET s1 == settings_reset_setting(st, name, priority)
    IN IF s1.ret THEN [value_changed(s1, name) EXCEPT !.ret = TRUE]
       ELSE [s1 EXCEPT !.ret = FALSE]

RECURSIVE listen_loop(_, _, _, _)
listen_loop(listeners, ss, split_names, result) ==
    IF split_names = <<>> THEN <<listeners, result>>
    ELSE LET n == Head(split_names)
             old == IF n \in DOMAIN listeners THEN listeners[n] ELSE {}
         IN listen_loop( map_put(listeners, n, old \cup {ss})
                       , ss
                       , Tail(split_names)
                       , IF ss \notin old THEN FALSE ELSE result)

\* server::listen()
server_listen(st, server_name, service_name, names) ==
    LET split_names == split_string(names)
    IN IF split_names = <<>> THEN [st EXCEPT !.ret = FALSE]
       ELSE LET r == listen_loop( st.listeners
                                , <<server_name, service_name>>
                                , split_names
                                , TRUE)
            IN [st EXCEPT !.listeners = r[1], !.ret = r[2]]

RECURSIVE forget_loop(_, _, _, _)
forget_loop(listeners, ss, split_names, result) ==
    IF split_names = <<>> THEN <<listeners, result>>
    ELSE LET n == Head(split_names)
         IN IF n \in DOMAIN listeners /\ ss \in listeners[n]
            THEN IF listeners[n] \ {ss} = {}
                 THEN forget_loop( map_erase(listeners, n)
                                 , ss, Tail(split_names), FALSE)
                 ELSE forget_loop( map_put(listeners, n, listeners[n] \ {ss})
                                 , ss, Tail(split_names), result)
            ELSE forget_loop(listeners, ss, Tail(split_names), result)

\* server::forget()
server_forget(st, server_name, service_name, names) ==
    LET split_names == split_string(names)
    IN IF split_names = <<>> THEN [st EXCEPT !.ret = FALSE]
       ELSE LET r == forget_loop( st.listeners
                                , <<server_name, service_name>>
                                , split_names
                                , TRUE)
            IN [st EXCEPT !.listeners = r[1], !.ret = r[2]]

\* an unserialize path that stores the text as it was received
unescape_nothing(text) == text

\* the unescaping of a value in server::remote_value_changed()
unescape_value(text) ==
    string_replace_many(
          text
        , << << <<"\\", "P">>, <<FIELD_SEPARATOR>> >>
           , << <<"\\", "S">>, <<"\\">> >>
           , << <<"\\", "n">>, <<"\n">> >>
           , << <<"\\", "r">>, <<"\r">> >> >>)

RECURSIVE remote_lines(_, _, _)
\* the loop of server::remote_value_changed() over the lines of the message
remote_lines(st, name, lines) ==
    IF lines = <<>> \/ st.thrown THEN st
    ELSE LET params == tokenize_string(Head(lines), FIELD_SEPARATOR)
         IN IF Len(params) # 3
            THEN remote_lines(st, name, Tail(lines))
            ELSE LET priority == convert_string(params[1])
                     timestamp_nsec == convert_nsec(params[2])
                 IN IF ~priority[1] \/ ~timestamp_nsec[1]
                    THEN remote_lines(st, name, Tail(lines))
                    ELSE remote_lines(
                              server_set_value( st
                                              , name
                                              , unescape_value(params[3])
                                              , priority[2]
                                              , timestamp_nsec[2])
                            , name
                            , Tail(lines))

\* the FLUID_SETTINGS_ERROR reply of server::remote_value_changed()
RemoteError(text) ==
    [EmptyMessage EXCEPT !.command = "FLUID_SETTINGS_ERROR"
                       , !.error = {text}
                       , !.error_command = {"VALUE_CHANGED"}]

\* server::remote_value_changed(): c is the connection the message came
\* from; f_remote_change is true while the function runs
remote_value_changed(st, msg, c) ==
    LET s1 == [st EXCEPT !.remote = TRUE]
        s2 ==
            IF msg.name = {} \/ msg.values = {}
            THEN [s1 EXCEPT !.bcast = Append(s1.bcast
                    , [to |-> c, msg |-> RemoteError("parameter \"name\" or \"values\" missing in message")])]
            ELSE LET name == CHOOSE n \in msg.name : TRUE
                     values == CHOOSE v \in msg.values : TRUE
                 IN IF name = ""
                    THEN [s1 EXCEPT !.bcast = Append(s1.bcast
                            , [to |-> c, msg |-> RemoteError("parameter \"name\" cannot be empty")])]
                    ELSE remote_lines(s1, name, tokenize_string(values, VALUE_SEPARATOR))
    IN [s2 EXCEPT !.remote = FALSE]

\* ------------------------------------------------------------------------
\* messenger.cpp: the replies of the handlers
\* ------------------------------------------------------------------------

\* the INVALID reply of a handler
InvalidReply(from, command, text) ==
    [reply_to(from) EXCEPT !.command = "INVALID"
                         , !.cmd = {command}
                         , !.message = {text}]

\* the conversion of the bool server::set_value() returns to the
\* set_result_t messenger::msg_put() switches on: SET_RESULT_ERROR is the
\* enumerator 0 and SET_RESULT_UNKNOWN the enumerator 1
set_result_from_bool(b) ==
    IF b THEN "SET_RESULT_UNKNOWN" ELSE "SET_RESULT_ERROR"

\* the reply of messenger::msg_put() for a set_result_t
PutReply(from, name, result) ==
    CASE result = "SET_RESULT_NEW" ->
            [reply_to(from) EXCEPT !.command = "FLUID_SETTINGS_UPDATED"
                                 , !.name = {name}, !.reason = {"new"}]
      [] result = "SET_RESULT_NEWER" ->
            [reply_to(from) EXCEPT !.command = "FLUID_SETTINGS_UPDATED"
                                 , !.name = {name}, !.reason = {"newer"}]
      [] result = "SET_RESULT_NEW_PRIORITY" ->
            [reply_to(from) EXCEPT !.command = "FLUID_SETTINGS_UPDATED"
                                 , !.name = {name}, !.reason = {"new priority"}]
      [] result = "SET_RESULT_CHANGED" ->
            [reply_to(from) EXCEPT !.command = "FLUID_SETTINGS_UPDATED"
                                 , !.name = {name}, !.reason = {"changed"}]
      [] result = "SET_RESULT_UNCHANGED" ->
            [reply_to(from) EXCEPT !.command = "FLUID_SETTINGS_UPDATED"
                                 , !.name = {name}, !.reason = {"unchanged"}]
      [] result = "SET_RESULT_ERROR" ->
            InvalidReply(from, "FLUID_SETTINGS_PUT", "put failed")
      [] result = "SET_RESULT_UNKNOWN" ->
            InvalidReply(from, "FLUID_SETTINGS_PUT", "no parameter named")

\* messenger::msg_put(): priority is the parameter of the message as a set
handle_put(st, from, wire_name, v, priority, timestamp) ==
    LET name == Normalize(wire_name)
        p == IF priority = {} THEN 50 ELSE CHOOSE x \in priority : TRUE
    IN IF p < MINIMUM_PRIORITY \/ p > MAXIMUM_PRIORITY
       THEN [st EXCEPT !.out = Append(st.out
                , InvalidReply(from, "FLUID_SETTINGS_PUT", "parameter \"priority\" is out of range"))
                     , !.ret = FALSE]
       ELSE LET s1 == server_set_value(st, name, v, p, timestamp)
            IN IF s1.thrown THEN s1
               ELSE [s1 EXCEPT !.out = Append(s1.out
                        , PutReply(from, name, set_result_from_bool(s1.ret)))]

\* messenger::msg_delete()
handle_delete(st, from, wire_name, priority) ==
    LET p == IF priority = {} THEN ADMINISTRATOR_PRIORITY
                              ELSE CHOOSE x \in priority : TRUE
        name == Normalize(wire_name)
    IN IF p < MINIMUM_PRIORITY \/ p > MAXIMUM_PRIORITY
       THEN [st EXCEPT !.out = Append(st.out
                , InvalidReply(from, "FLUID_SETTINGS_DELETE", "parameter \"priority\" is out of range"))
                     , !.ret = FALSE]
       ELSE LET s1 == server_reset_setting(st, name, p)
            IN IF s1.ret
               THEN [s1 EXCEPT !.out = Append(s1.out
                        , [reply_to(from) EXCEPT !.command = "FLUID_SETTINGS_DELETED"
                                               , !.name = {name}])]
               ELSE [s1 EXCEPT !.out = Append(s1.out
                        , [reply_to(from) EXCEPT !.command = "FLUID_SETTINGS_DELETED"
                                               , !.name = {name}
                                               , !.message = {"nothing was deleted"}])]

\* advgetopt::is_true()
is_true(s) == s \in {"true", "on", "yes", "1"}

\* a reply that never falls back on the default of the schema
GetReply_no_default(from, name, all, r) ==
    LET m == [reply_to(from) EXCEPT !.name = {name}]
    IN IF r[1] = "GET_RESULT_SUCCESS"
       THEN IF all
            THEN [m EXCEPT !.command = "FLUID_SETTINGS_ALL_VALUES", !.values = {r[2]}]
            ELSE [m EXCEPT !.command = "FLUID_SETTINGS_VALUE", !.value = {r[2]}]
       ELSE [m EXCEPT !.command = "FLUID_SETTINGS_NOT_SET"
                    , !.error = {"this setting is not set"}]

\* the reply of messenger::msg_get() for the result r = <<kind, value>> of
\* server::get_value()
GetReply(from, name, all, r) ==
    LET m == [reply_to(from) EXCEPT !.name = {name}]
    IN CASE r[1] = "GET_RESULT_SUCCESS" ->
                IF all
                THEN [m EXCEPT !.command = "FLUID_SETTINGS_ALL_VALUES", !.values = {r[2]}]
                ELSE [m EXCEPT !.command = "FLUID_SETTINGS_VALUE", !.value = {r[2]}]
         [] r[1] = "GET_RESULT_DEFAULT" ->
                [m EXCEPT !.command = "FLUID_SETTINGS_DEFAULT_VALUE", !.value = {r[2]}]
         [] r[1] = "GET_RESULT_NOT_SET" ->
                [m EXCEPT !.command = "FLUID_SETTINGS_NOT_SET"
                        , !.error = {"this setting is not set"}]
         [] r[1] = "GET_RESULT_PRIORITY_NOT_FOUND" ->
                [m EXCEPT !.command = "FLUID_SETTINGS_NOT_SET"
                        , !.error = {"no value at the requested priority"}]
         [] r[1] = "GET_RESULT_ERROR" ->
                [m EXCEPT !.command = "FLUID_SETTINGS_NOT_SET"
                        , !.error = {"logic error"}]
         [] r[1] = "GET_RESULT_UNKNOWN" ->
                [m EXCEPT !.command = "FLUID_SETTINGS_NOT_SET"
                        , !.error = {"no parameter named"}]

\* the number of exclusive parameters messenger::msg_get() counts
GetCmd(priority, all, default_value) ==
    (IF \E s \in default_value : is_true(s) THEN 1 ELSE 0)
    + (IF \E s \in all : is_true(s) THEN 1 ELSE 0)
    + (IF \E s \in priority : convert_string(s)[1]
                              /\ convert_string(s)[2] # HIGHEST_PRIORITY
       THEN 1 ELSE 0)

\* messenger::msg_get(): priority, all and default_value are the parameters
\* of the message as sets of texts; the call of get_default_value(), which
\* has no definition, is not part of the model (see msg_get)
handle_get(st, from, wire_name, priority, all, default_value) ==
    LET is_all == \E s \in all : is_true(s)
        p == IF priority = {} THEN HIGHEST_PRIORITY
             ELSE convert_string(CHOOSE s \in priority : TRUE)[2]
        name == Normalize(wire_name)
    IN IF \E s \in priority : ~convert_string(s)[1]
       THEN [st EXCEPT !.out = Append(st.out
                , InvalidReply(from, "FLUID_SETTINGS_GET"
                    , "parameter \"priority\" must be an integer when defined"))
                     , !.ret = FALSE]
       ELSE IF GetCmd(priority, all, default_value) > 1
       THEN [st EXCEPT !.out = Append(st.out
                , InvalidReply(from, "FLUID_SETTINGS_GET"
                    , "parameters are mutually exclusive"))
                     , !.ret = FALSE]
       ELSE LET r == settings_get_value(st, name, p, is_all)
            IN IF r[1] = "out_of_range"
               THEN [st EXCEPT !.thrown = TRUE]
               ELSE [st EXCEPT !.out = Append(st.out, GetReply(from, name, is_all, r))
                             , !.ret = (r[1] = "GET_RESULT_SUCCESS")]

\* messenger::msg_list()
handle_list(st, from) ==
    [st EXCEPT !.out = Append(st.out
            , [reply_to(from) EXCEPT !.command = "FLUID_SETTINGS_OPTIONS"
                                   , !.options = {settings_list_of_options}])]

\* messenger::msg_forget(): to is the (server, service) the message is
\* addressed to, which is what msg.get_server() and msg.get_service() return
handle_forget(st, from, to, names) ==
    IF to[1] = "" \/ to[2] = ""
    THEN [st EXCEPT !.out = Append(st.out
            , InvalidReply(from, "FLUID_SETTINGS_FORGET", "parameter \"server\" or \"service\" missing in message."))
                  , !.ret = FALSE]
    ELSE LET s1 == server_forget(st, to[1], to[2], NormalizeList(names))
         IN IF s1.ret
            THEN [s1 EXCEPT !.out = Append(s1.out
                    , [reply_to(from) EXCEPT !.command = "FLUID_SETTINGS_FORGET"
                                           , !.message = {"not listening"}])]
            ELSE [s1 EXCEPT !.out = Append(s1.out
                    , [reply_to(from) EXCEPT !.command = "FLUID_SETTINGS_FORGET"])]

\* the VALUE_UPDATED message messenger::msg_listen() sends for one name
CurrentValue(st, from, n) ==
    LET r == settings_get_value(st, n, HIGHEST_PRIORITY, FALSE)
        m == [reply_to(from) EXCEPT !.command = "FLUID_SETTINGS_VALUE_UPDATED"
                                  , !.name = {n}]
    IN CASE r[1] = "GET_RESULT_DEFAULT" ->
                [m EXCEPT !.default = {"true"}, !.value = {r[2]}
                        , !.message = {"current value"}]
         [] r[1] = "GET_RESULT_SUCCESS" ->
                [m EXCEPT !.value = {r[2]}, !.message = {"current value"}]
         [] r[1] = "GET_RESULT_NOT_SET" ->
                [m EXCEPT !.error = {"not set"}]
         [] r[1] = "GET_RESULT_PRIORITY_NOT_FOUND" ->
                [m EXCEPT !.error = {"priority not found"}]
         [] r[1] = "GET_RESULT_ERROR" ->
                [m EXCEPT !.error = {"logic error"}]
         [] r[1] = "GET_RESULT_UNKNOWN" ->
                [m EXCEPT !.error = {"no parameter named"}]

\* a count of errors that takes a default value for an error
CountsAsError_default(r) == r # "GET_RESULT_SUCCESS"

\* the get_result_t for which messenger::msg_listen() counts an error
CountsAsError(r) == r \notin {"GET_RESULT_DEFAULT", "GET_RESULT_SUCCESS"}

\* the messages messenger::msg_listen() sends after REGISTERED: the current
\* value of each name, then READY
ListenReplay(st, from, split_names) ==
    LET errcnt == Cardinality(
                    {i \in 1..Len(split_names) :
                        CountsAsError(settings_get_value(
                              st, split_names[i], HIGHEST_PRIORITY, FALSE)[1])})
        ready == [reply_to(from) EXCEPT !.command = "FLUID_SETTINGS_READY"]
    IN [i \in 1..Len(split_names) |-> CurrentValue(st, from, split_names[i])]
          \o << IF errcnt > 0 THEN [ready EXCEPT !.errcnt = {errcnt}]
                               ELSE ready >>

\* the REGISTERED reply of messenger::msg_listen()
Registered(from, already) ==
    IF already
    THEN [reply_to(from) EXCEPT !.command = "FLUID_SETTINGS_REGISTERED"
                              , !.message = {"already registered"}]
    ELSE [reply_to(from) EXCEPT !.command = "FLUID_SETTINGS_REGISTERED"]

\* messenger::msg_listen(): from is the (server, service) the message was
\* sent from
handle_listen(st, from, wire_names) ==
    IF from[1] = "" \/ from[2] = ""
    THEN [st EXCEPT !.out = Append(st.out
            , InvalidReply(from, "FLUID_SETTINGS_LISTEN", "parameter \"server\" or \"service\" are empty."))
                  , !.ret = FALSE]
    ELSE LET names == NormalizeList(wire_names)
             s1 == server_listen(st, from[1], from[2], names)
         IN [s1 EXCEPT !.out = (s1.out \o <<Registered(from, s1.ret)>>)
                                  \o ListenReplay(s1, from, split_string(names))]

\* ------------------------------------------------------------------------
\* The state
\* ------------------------------------------------------------------------

VARIABLES
    f_values,           \* settings::f_values of each daemon
    f_defined,          \* is_defined() of the options of settings::f_opts
    f_listeners,        \* server::f_listeners of each daemon
    f_save_timer,       \* server::f_save_timer: enabled, ticks left
    f_remote_change,    \* server::f_remote_change
    f_replicators,      \* server::f_replicators: a list of <<role, link>>
    running,            \* the event loop of the daemon runs
    links,              \* the TCP links between listeners and replicators
    chan,               \* the messages in flight on each link
    out,                \* the messages the last handler sent by messenger
    psent,              \* the messages the last handler sent to peer links
    last,               \* the last handler that ran, its input, what it
                        \* returned and whether it changed f_values
    steps,              \* number of inputs handled so far
    script,             \* scenario specifications: the inputs drawn
    todo,               \* scenario specifications: the calls left to make
    settings_file,      \* the files of settings: the parameters of each
    client,             \* the session of one client (fluid_settings_connection)
    clock               \* the timers of each daemon (save_timer, gossip_timer)

vars ==
    << f_values, f_defined, f_listeners, f_save_timer, f_remote_change
     , f_replicators, running, links, chan, out, psent, last, steps
     , script, todo, settings_file, client, clock >>

LinkIds == 1..MaxLinks

\* a link: the replicator_out of daemon `out` and the replicator_in of
\* daemon `in`; f_errors is the field of the replicator_out; failures
\* counts the hard failures since the last process_connected()
NoLink == [state |-> "none", out |-> 0, in |-> 0, f_errors |-> 0, failures |-> 0]

\* ------------------------------------------------------------------------
\* fluid_settings_connection.cpp: the session of a client service
\*
\* Names and values are sequences of characters.  The record of the session:
\*   f_registered, f_ready, f_watches, f_timer   the fields of the class;
\*              f_timer maps a name to the identifier of a timer
\*   timers     the timer connections ed::communicator holds: <<id, name>>
\*   next_id    the identifier of the next timer created
\*   options    the values of the options of get_options()
\*   sent       the messages the last handler sent
\*   callbacks  the calls of fluid_settings_changed() the last handler made
\*   wire       the messages on their way to the daemon
\*   inbox      the replies of the daemon the session has not read yet
\*   up_ready   READY callbacks since the service was last reported up
\*   requests   the calls of get_settings_value() made so far
\* ------------------------------------------------------------------------

\* service_name() of the session
ServiceName == <<"b">>

\* the options of the client: "d" has GETOPT_FLAG_DYNAMIC_CONFIGURATION,
\* "s" does not
LocalOptions == {<<"d">>, <<"s">>}

\* every option of the client taken as dynamic
EveryOption == {<<"d">>, <<"s">>}

DynamicOptions == {<<"d">>}

\* the session after its construction
NoClient ==
    [ f_registered |-> FALSE, f_ready |-> FALSE, f_watches |-> {}
    , f_timer |-> <<>>, timers |-> {}, next_id |-> 1
    , options |-> [o \in LocalOptions |-> <<"0">>]
    , sent |-> <<>>, callbacks |-> <<>>, wire |-> <<>>, inbox |-> <<>>
    , up_ready |-> 0, requests |-> <<>> ]

\* the save timer after server::prepare_save_timer()
NoSaveTimer == [enabled |-> FALSE, left |-> SaveTimeout]

\* the gossip timer after server::prepare_gossip_timer(): the constructor
\* of gossip_timer disables it; since_save counts the ticks since the last
\* call of save_settings(), up to SaveTimeout; now is the time of the
\* clock of the daemon, which wraps around
NoClock ==
    [ d \in Daemons |->
        [ gossip_enabled |-> FALSE, gossip_left |-> GossipTimeout
        , since_save |-> SaveTimeout, now |-> 0 ] ]

LastNone ==
    [ cmd |-> "none", d |-> 0, from |-> <<"", "">>, to |-> <<"", "">>
    , name |-> "", names |-> <<>>, priority |-> 0, timestamp |-> <<0, 0>>
    , value |-> <<>>, ret |-> FALSE, changed |-> FALSE, link |-> 0
    , all |-> FALSE, default_value |-> FALSE, text |-> {} ]

\* settings.cpp: the name of the default file of settings
g_settings_file == "/var/lib/fluid-settings/settings/settings.conf"

\* the names of the files of settings of the model
SettingsFiles == {g_settings_file, "/tmp/settings.conf"}

\* no file of settings holds a parameter
NoFiles == [f \in SettingsFiles |-> <<>>]

\* settings is the value of the option --settings of the daemons, which
\* has the default g_settings_file
NoScript ==
    [ pre |-> {}, calls |-> [d \in Daemons |-> <<>>]
    , settings |-> g_settings_file ]

\* the state after the construction of the daemons: prepare_settings() has
\* loaded the definitions and a settings file that holds the records pre of
\* the setting "c"; settings::load() calls set_value() for each of them
InitDaemons(pre) ==
    /\ f_values = [d \in Daemons |-> IF pre = {} THEN <<>> ELSE [n \in {"c"} |-> pre]]
    /\ f_defined = [d \in Daemons |-> [n \in Schema |-> n = "c" /\ pre # {}]]
    /\ f_listeners = [d \in Daemons |-> <<>>]
    /\ f_save_timer = [d \in Daemons |-> NoSaveTimer]
    /\ f_remote_change = [d \in Daemons |-> FALSE]
    /\ f_replicators = [d \in Daemons |-> <<>>]
    /\ running = [d \in Daemons |-> TRUE]
    /\ links = [i \in LinkIds |-> NoLink]
    /\ chan = [i \in LinkIds |-> [toIn |-> <<>>, toOut |-> <<>>]]
    /\ out = <<>>
    /\ psent = <<>>
    /\ last = LastNone
    /\ steps = 0
    /\ settings_file = NoFiles
    /\ client = NoClient
    /\ clock = NoClock

\* the daemons start without a settings file
Init ==
    /\ InitDaemons({})
    /\ script = NoScript
    /\ todo = script.calls

\* the state of daemon d when a handler starts
Start(d) ==
    [ values |-> f_values[d], defined |-> f_defined[d]
    , listeners |-> f_listeners[d], timer |-> f_save_timer[d]
    , remote |-> f_remote_change[d]
    , out |-> <<>>, bcast |-> <<>>, thrown |-> FALSE, ret |-> FALSE ]

\* ------------------------------------------------------------------------
\* Sending to peer links
\* ------------------------------------------------------------------------

\* send_message() of the replicator c = <<role, link>>: a replicator_out
\* writes towards the listener once it is connected, a replicator_in
\* towards the daemon that connected (the messages to a peer outside of
\* the model are not kept)
Enqueue(ch, c, msg) ==
    IF c[1] = "out"
    THEN IF links[c[2]].state = "open"
         THEN [ch EXCEPT ![c[2]].toIn = Append(@, msg)]
         ELSE ch
    ELSE IF links[c[2]].out # 0
         THEN [ch EXCEPT ![c[2]].toOut = Append(@, msg)]
         ELSE ch

RECURSIVE broadcast_message(_, _, _)
\* ed::broadcast_message() over a list of replicators
broadcast_message(ch, replicators, msg) ==
    IF replicators = <<>> THEN ch
    ELSE broadcast_message(Enqueue(ch, Head(replicators), msg)
                          , Tail(replicators), msg)

RECURSIVE Deliver(_, _, _)
\* the effect on the links of the messages a handler of daemon d sent
Deliver(ch, d, sent) ==
    IF sent = <<>> THEN ch
    ELSE LET e == Head(sent)
         IN Deliver( IF e.to = "all"
                     THEN broadcast_message(ch, f_replicators[d], e.msg)
                     ELSE Enqueue(ch, e.to, e.msg)
                   , d
                   , Tail(sent))

HasRoom(ch) ==
    \A i \in LinkIds : Len(ch[i].toIn) <= MaxQueue /\ Len(ch[i].toOut) <= MaxQueue

\* the state after a handler of daemon d ended in state st
Commit(d, st, ch, l) ==
    /\ HasRoom(Deliver(ch, d, st.bcast))
    /\ f_values' = [f_values EXCEPT ![d] = st.values]
    /\ f_defined' = [f_defined EXCEPT ![d] = st.defined]
    /\ f_listeners' = [f_listeners EXCEPT ![d] = st.listeners]
    /\ f_save_timer' = [f_save_timer EXCEPT ![d] = st.timer]
    /\ f_remote_change' = [f_remote_change EXCEPT ![d] = st.remote]
    /\ running' = [running EXCEPT ![d] = ~st.thrown]
    /\ chan' = Deliver(ch, d, st.bcast)
    /\ out' = st.out
    /\ psent' = st.bcast
    /\ last' = [l EXCEPT !.d = d, !.ret = st.ret
                       , !.changed = (st.values # f_values[d])]

\* ------------------------------------------------------------------------
\* Actions: the messages a daemon receives from the communicator
\* ------------------------------------------------------------------------

\* messenger::msg_put() for a message from `from`
msg_put(d, from, wire_name, v, priority, timestamp) ==
    /\ running[d]
    /\ steps' = steps + 1
    /\ Commit( d
             , handle_put(Start(d), from, wire_name, v, priority, timestamp)
             , chan
             , [LastNone EXCEPT !.cmd = "PUT", !.from = from
                              , !.name = Normalize(wire_name)
                              , !.priority = IF priority = {} THEN 50
                                             ELSE CHOOSE x \in priority : TRUE
                              , !.timestamp = timestamp
                              , !.value = v])
    /\ UNCHANGED <<f_replicators, links>>

\* messenger::msg_delete()
msg_delete(d, from, wire_name, priority) ==
    /\ running[d]
    /\ steps' = steps + 1
    /\ Commit( d
             , handle_delete(Start(d), from, wire_name, priority)
             , chan
             , [LastNone EXCEPT !.cmd = "DELETE", !.from = from
                              , !.name = Normalize(wire_name)
                              , !.priority = IF priority = {} THEN ADMINISTRATOR_PRIORITY
                                             ELSE CHOOSE x \in priority : TRUE])
    /\ UNCHANGED <<f_replicators, links>>

\* messenger::msg_listen()
msg_listen(d, from, names) ==
    /\ running[d]
    /\ steps' = steps + 1
    /\ Commit( d
             , handle_listen(Start(d), from, names)
             , chan
             , [LastNone EXCEPT !.cmd = "LISTEN", !.from = from
                              , !.names = split_string(NormalizeList(names))])
    /\ UNCHANGED <<f_replicators, links>>

\* messenger::msg_forget()
msg_forget(d, from, to, names) ==
    /\ running[d]
    /\ steps' = steps + 1
    /\ Commit( d
             , handle_forget(Start(d), from, to, names)
             , chan
             , [LastNone EXCEPT !.cmd = "FORGET", !.from = from, !.to = to
                              , !.names = split_string(NormalizeList(names))])
    /\ UNCHANGED <<f_replicators, links>>

\* messenger::msg_get(); a message with default_value=true alone, which
\* calls server::get_default_value(), is not an input of the model
msg_get(d, from, wire_name, priority, all, default_value) ==
    /\ running[d]
    /\ \/ ~ \E s \in default_value : is_true(s)
       \/ \E s \in priority : ~convert_string(s)[1]
       \/ GetCmd(priority, all, default_value) > 1
    /\ steps' = steps + 1
    /\ Commit( d
             , handle_get(Start(d), from, wire_name, priority, all, default_value)
             , chan
             , [LastNone EXCEPT !.cmd = "GET", !.from = from
                              , !.name = Normalize(wire_name)
                              , !.text = priority
                              , !.priority = IF priority = {} THEN HIGHEST_PRIORITY
                                             ELSE convert_string(CHOOSE s \in priority : TRUE)[2]
                              , !.all = \E s \in all : is_true(s)
                              , !.default_value = \E s \in default_value : is_true(s)])
    /\ UNCHANGED <<f_replicators, links>>

\* messenger::msg_list()
msg_list(d, from) ==
    /\ running[d]
    /\ steps' = steps + 1
    /\ Commit(d, handle_list(Start(d), from), chan
             , [LastNone EXCEPT !.cmd = "LIST", !.from = from])
    /\ UNCHANGED <<f_replicators, links>>

\* ------------------------------------------------------------------------
\* Actions: the peer mesh
\* ------------------------------------------------------------------------

FreeLinks == {i \in LinkIds : links[i].state = "none"}

\* an order that lets the larger address, or a daemon facing its own
\* address, create the link
addr_greater_equal(a, b) == a >= b

\* addr::addr::operator < () on the listener addresses of the model
addr_less(a, b) == a < b

\* messenger::connect_from_gossip(): the reply that is sent, if any
GossipReply(d, from, connecting, send_reply) ==
    IF send_reply
    THEN << [reply_to(from) EXCEPT
                  !.command = "FLUID_SETTINGS_CONNECTED"
                , !.message = {IF connecting THEN "we sent you a connection request"
                                             ELSE "you connect to us"}
                , !.my_ip = {d}] >>
    ELSE <<>>

\* messenger::connect_from_gossip(), with
\* server::connect_to_other_fluid_settings() and server::add_replicator():
\* the daemon with the smaller address creates a replicator_out
connect_from_gossip(d, from, their_ip, send_reply) ==
    /\ running[d]
    /\ steps' = steps + 1
    /\ IF addr_less(d, their_ip)
       THEN /\ FreeLinks # {}
            /\ LET i == Min(FreeLinks)
               IN /\ links' = [links EXCEPT ![i] =
                          [NoLink EXCEPT !.state = "connecting", !.out = d
                                         , !.in = their_ip]]
                  /\ f_replicators' = [f_replicators EXCEPT ![d] =
                          Append(@, <<"out", i>>)]
       ELSE UNCHANGED <<links, f_replicators>>
    /\ out' = GossipReply(d, from, addr_less(d, their_ip), send_reply)
    /\ psent' = <<>>
    /\ last' = [LastNone EXCEPT !.cmd = IF send_reply THEN "GOSSIP" ELSE "CONNECTED"
                              , !.d = d, !.from = from, !.link = their_ip]
    /\ UNCHANGED << f_values, f_defined, f_listeners, f_save_timer
                  , f_remote_change, running, chan >>

\* messenger::msg_gossip()
msg_gossip(d, from, their_ip) == connect_from_gossip(d, from, their_ip, TRUE)

\* messenger::msg_connected()
msg_connected(d, from, their_ip) == connect_from_gossip(d, from, their_ip, FALSE)

\* listener::process_accept() for the connection of a replicator_out of
\* the other daemon
process_accept(d, i) ==
    /\ running[d]
    /\ links[i].state = "connecting"
    /\ links[i].in = d
    /\ links' = [links EXCEPT ![i].state = "open"]
    /\ f_replicators' = [f_replicators EXCEPT ![d] = Append(@, <<"in", i>>)]
    /\ out' = <<>>
    /\ psent' = <<>>
    /\ last' = [LastNone EXCEPT !.cmd = "ACCEPT", !.d = d, !.link = i]
    /\ UNCHANGED << f_values, f_defined, f_listeners, f_save_timer
                  , f_remote_change, running, chan, steps >>

\* listener::process_accept() for the connection of a peer that is not one
\* of the daemons of the model
process_accept_other(d) ==
    /\ running[d]
    /\ steps' = steps + 1
    /\ FreeLinks # {}
    /\ LET i == Min(FreeLinks)
       IN /\ links' = [links EXCEPT ![i] = [NoLink EXCEPT !.state = "open", !.in = d]]
          /\ f_replicators' = [f_replicators EXCEPT ![d] = Append(@, <<"in", i>>)]
          /\ last' = [LastNone EXCEPT !.cmd = "ACCEPT", !.d = d, !.link = i]
    /\ out' = <<>>
    /\ psent' = <<>>
    /\ UNCHANGED << f_values, f_defined, f_listeners, f_save_timer
                  , f_remote_change, running, chan >>

\* a peer that is not one of the daemons of the model writes message m on
\* link i
peer_sends(i, m) ==
    /\ links[i].state = "open"
    /\ links[i].out = 0
    /\ steps' = steps + 1
    /\ Len(chan[i].toIn) < MaxQueue
    /\ chan' = [chan EXCEPT ![i].toIn = Append(@, m)]
    /\ out' = <<>>
    /\ psent' = <<>>
    /\ last' = [LastNone EXCEPT !.cmd = "PEER", !.link = i]
    /\ UNCHANGED << f_values, f_defined, f_listeners, f_save_timer
                  , f_remote_change, f_replicators, running, links >>

\* the queue replicator c = <<role, link>> reads
Inbox(c) == IF c[1] = "in" THEN chan[c[2]].toIn ELSE chan[c[2]].toOut

\* the links without the first message of the queue replicator c reads
Popped(c) ==
    IF c[1] = "in" THEN [chan EXCEPT ![c[2]].toIn = Tail(@)]
                   ELSE [chan EXCEPT ![c[2]].toOut = Tail(@)]

\* the dispatcher of replicator_in and replicator_out: the command
\* VALUE_CHANGED is the one match, for msg_value_changed()
DispatcherMatch(msg) == msg.command = "VALUE_CHANGED"

\* the k-th replicator of daemon d reads one message:
\* replicator_in::msg_value_changed(), replicator_out::msg_value_changed()
\* or no match of the dispatcher
process_message(d, k) ==
    LET c == f_replicators[d][k]
    IN  /\ running[d]
        /\ Inbox(c) # <<>>
        /\ LET msg == Head(Inbox(c))
               l == [LastNone EXCEPT
                          !.cmd = IF DispatcherMatch(msg) THEN "VALUE_CHANGED"
                                                          ELSE "NO_MATCH"
                        , !.name = IF msg.name = {} THEN ""
                                   ELSE CHOOSE n \in msg.name : TRUE
                        , !.value = IF msg.values = {} THEN <<>>
                                    ELSE CHOOSE v \in msg.values : TRUE
                        , !.link = c[2]]
           IN IF DispatcherMatch(msg)
              THEN Commit(d, remote_value_changed(Start(d), msg, c), Popped(c), l)
              ELSE Commit(d, Start(d), Popped(c), l)
        /\ UNCHANGED <<f_replicators, links, steps>>

\* ------------------------------------------------------------------------
\* The specification of the two daemons and their peer links
\* ------------------------------------------------------------------------

T0 == <<g_oldest_fluid_setting_date, 0>>

T1 == <<g_oldest_fluid_setting_date + 1, 0>>

Client1 == <<"s1", "svc">>

\* the texts of the parameter "values" a peer outside of the model may send
PeerTexts ==
    { serialize_one(value_set_value(<<"y">>, 50, T1))
        \o serialize_one(value_set_value(<<"x">>, 60, T1))
    , <<"b", "a", "d", "\n">> \o serialize_one(value_set_value(<<"y">>, 50, T0)) }

\* the VALUE_CHANGED messages such a peer may send
PeerMessages ==
    { [EmptyMessage EXCEPT !.command = "VALUE_CHANGED", !.name = {"c"}, !.values = {t}] :
            t \in PeerTexts }
    \cup { [EmptyMessage EXCEPT !.command = "VALUE_CHANGED"
                              , !.values = {CHOOSE t \in PeerTexts : TRUE}] }

Next ==
    \/ /\ steps < MaxSteps
       /\ \E d \in Daemons, v \in Values, priority \in {{}, {60}}, timestamp \in {T0, T1} :
                msg_put(d, Client1, "c", v, priority, timestamp)
       /\ UNCHANGED <<script, todo, settings_file, client, clock>>
    \/ /\ steps < MaxSteps
       /\ \E d \in Daemons, priority \in {{}, {60}} :
                msg_delete(d, Client1, "c", priority)
       /\ UNCHANGED <<script, todo, settings_file, client, clock>>
    \/ /\ steps < MaxSteps
       /\ \E d \in Daemons : msg_listen(d, Client1, <<"c">>)
       /\ UNCHANGED <<script, todo, settings_file, client, clock>>
    \/ /\ steps < MaxSteps
       /\ \E d \in Daemons : msg_forget(d, Client1, DaemonService, <<"c">>)
       /\ UNCHANGED <<script, todo, settings_file, client, clock>>
    \/ /\ steps < MaxSteps
       /\ \E d \in Daemons, their_ip \in Daemons : msg_gossip(d, Client1, their_ip)
       /\ UNCHANGED <<script, todo, settings_file, client, clock>>
    \/ /\ steps < MaxSteps
       /\ \E d \in Daemons, their_ip \in Daemons : msg_connected(d, Client1, their_ip)
       /\ UNCHANGED <<script, todo, settings_file, client, clock>>
    \/ /\ steps < MaxSteps
       /\ \E d \in Daemons : process_accept_other(d)
       /\ UNCHANGED <<script, todo, settings_file, client, clock>>
    \/ /\ steps < MaxSteps
       /\ \E i \in LinkIds, m \in PeerMessages : peer_sends(i, m)
       /\ UNCHANGED <<script, todo, settings_file, client, clock>>
    \/ /\ \E d \in Daemons, i \in LinkIds : process_accept(d, i)
       /\ UNCHANGED <<script, todo, settings_file, client, clock>>
    \/ /\ \E d \in Daemons : \E k \in 1..Len(f_replicators[d]) : process_message(d, k)
       /\ UNCHANGED <<script, todo, settings_file, client, clock>>

Spec == Init /\ [][Next]_vars

\* ------------------------------------------------------------------------
\* The specification of the value store of one daemon: daemon 1 receives
\* PUT and DELETE messages
\* ------------------------------------------------------------------------

NextStore ==
    \/ /\ steps < MaxStoreSteps
       /\ \E wire_name \in {"a_b", "c"}, v \in Values,
             priority \in {{}, {60}, {100}}, timestamp \in Stamps :
                msg_put(1, Client1, wire_name, v, priority, timestamp)
       /\ UNCHANGED <<script, todo, settings_file, client, clock>>
    \/ /\ steps < MaxStoreSteps
       /\ \E wire_name \in {"a_b", "c"}, priority \in {{}, {60}, {100}} :
                msg_delete(1, Client1, wire_name, priority)
       /\ UNCHANGED <<script, todo, settings_file, client, clock>>

SpecStore == Init /\ [][NextStore]_vars

\* ------------------------------------------------------------------------
\* The specification of the subscriptions of one daemon: daemon 1 receives
\* LISTEN, FORGET, PUT and DELETE messages
\* ------------------------------------------------------------------------

\* the lists of names a LISTEN or a FORGET may carry
NameLists ==
    { <<>>, <<"c">>, <<"a_b">>, <<"a-b", "c">>, <<"c", "", "zz">>, <<"c", "c">> }

\* the destinations a message to the daemon may carry
Destinations == { DaemonService, <<"", "fluid_settings">> }

NextSubs ==
    \/ /\ steps < MaxSubSteps
       /\ \E from \in Clients, names \in NameLists : msg_listen(1, from, names)
       /\ UNCHANGED <<script, todo, settings_file, client, clock>>
    \/ /\ steps < MaxSubSteps
       /\ \E from \in Clients, to \in Destinations, names \in NameLists :
                msg_forget(1, from, to, names)
       /\ UNCHANGED <<script, todo, settings_file, client, clock>>
    \/ /\ steps < MaxSubSteps
       /\ \E wire_name \in {"a_b", "c"}, v \in Values, timestamp \in {T0, T1} :
                msg_put(1, Client1, wire_name, v, {}, timestamp)
       /\ UNCHANGED <<script, todo, settings_file, client, clock>>
    \/ /\ steps < MaxSubSteps
       /\ msg_delete(1, Client1, "c", {})
       /\ UNCHANGED <<script, todo, settings_file, client, clock>>

SpecSubs == Init /\ [][NextSubs]_vars

\* ------------------------------------------------------------------------
\* The specification of the peer scenarios: the two daemons start with the
\* same settings file, connect to each other after a gossip and then each
\* receives the PUT or DELETE messages of a scenario drawn in Init
\* ------------------------------------------------------------------------

T2 == <<g_oldest_fluid_setting_date + 2, 0>>

PutCall(v, priority, timestamp) ==
    [op |-> "PUT", name |-> "c", v |-> v, priority |-> priority, timestamp |-> timestamp]

DeleteCall(priority) ==
    [op |-> "DELETE", name |-> "c", v |-> <<>>, priority |-> priority, timestamp |-> T0]

\* the scenarios: a record of priority 50 and timestamp T0 was loaded or
\* not; daemon 1 receives one PUT of timestamp T1 or one DELETE; daemon 2
\* receives nothing or one PUT of timestamp T2
PeerScripts ==
    { [pre |-> pre, calls |-> [d \in Daemons |-> IF d = 1 THEN c1 ELSE c2]] :
        pre \in {{}} \cup {{value_set_value(v, 50, T0)} : v \in Values},
        c1 \in {<<PutCall(v, 50, T1)>> : v \in Values} \cup {<<DeleteCall(50)>>},
        c2 \in {<<>>} \cup {<<PutCall(v, 50, T2)>> : v \in Values} }

InitPeers ==
    /\ script \in PeerScripts
    /\ todo = script.calls
    /\ InitDaemons(script.pre)

\* a link between the two daemons is established
Linked ==
    \E i \in LinkIds :
        /\ links[i].state = "open"
        /\ links[i].out \in Daemons
        /\ links[i].in \in Daemons

\* daemon d receives the next PUT of the scenario
scripted_put(d) ==
    /\ todo[d] # <<>>
    /\ Head(todo[d]).op = "PUT"
    /\ Linked
    /\ LET c == Head(todo[d])
       IN msg_put(d, Client1, c.name, c.v, {c.priority}, c.timestamp)
    /\ todo' = [todo EXCEPT ![d] = Tail(@)]
    /\ UNCHANGED <<script, settings_file, client, clock>>

\* daemon d receives the next DELETE of the scenario
scripted_delete(d) ==
    /\ todo[d] # <<>>
    /\ Head(todo[d]).op = "DELETE"
    /\ Linked
    /\ LET c == Head(todo[d])
       IN msg_delete(d, Client1, c.name, {c.priority})
    /\ todo' = [todo EXCEPT ![d] = Tail(@)]
    /\ UNCHANGED <<script, settings_file, client, clock>>

NextPeers ==
    \/ /\ steps < MaxGossip
       /\ \E d \in Daemons, their_ip \in Daemons : msg_gossip(d, Client1, their_ip)
       /\ UNCHANGED <<script, todo, settings_file, client, clock>>
    \/ /\ steps < MaxGossip
       /\ \E d \in Daemons, their_ip \in Daemons : msg_connected(d, Client1, their_ip)
       /\ UNCHANGED <<script, todo, settings_file, client, clock>>
    \/ /\ \E d \in Daemons, i \in LinkIds : process_accept(d, i)
       /\ UNCHANGED <<script, todo, settings_file, client, clock>>
    \/ /\ \E d \in Daemons : \E k \in 1..Len(f_replicators[d]) : process_message(d, k)
       /\ UNCHANGED <<script, todo, settings_file, client, clock>>
    \/ \E d \in Daemons : scripted_put(d)
    \/ \E d \in Daemons : scripted_delete(d)

SpecPeers == InitPeers /\ [][NextPeers]_vars

\* ------------------------------------------------------------------------
\* The specification of the merge: daemon 1 applies a sequence of
\* settings::set_value() calls on one name and daemon 2 a permutation of it
\* ------------------------------------------------------------------------

MergeCalls ==
    { PutCall(v, pt[1], pt[2]) :
        v \in Values, pt \in {<<50, T0>>, <<50, T1>>, <<60, T0>>} }

\* no two calls of the sequence have the same priority and timestamp
NoTie(s) ==
    \A i, j \in 1..Len(s) :
        (i # j /\ s[i].priority = s[j].priority) => s[i].timestamp # s[j].timestamp

MergeSeqs ==
    UNION { {s \in [1..n -> MergeCalls] : NoTie(s)} : n \in 0..MaxLen }

MergeScripts ==
    UNION { { [pre |-> {}, calls |-> [d \in Daemons |->
                    IF d = 1 THEN s ELSE [i \in 1..Len(s) |-> s[perm[i]]]]] :
                perm \in Permutations(1..Len(s)) } : s \in MergeSeqs }

InitMerge ==
    /\ script \in MergeScripts
    /\ todo = script.calls
    /\ InitDaemons({})

\* daemon d calls settings::set_value() with the next call of its sequence
apply_set(d) ==
    /\ todo[d] # <<>>
    /\ LET c == Head(todo[d])
       IN Commit( d
                , settings_set_value(Start(d), c.name, c.v, c.priority, c.timestamp)
                , chan
                , [LastNone EXCEPT !.cmd = "SET", !.name = c.name
                                 , !.priority = c.priority
                                 , !.timestamp = c.timestamp
                                 , !.value = c.v])
    /\ todo' = [todo EXCEPT ![d] = Tail(@)]
    /\ UNCHANGED <<f_replicators, links, steps, script, settings_file, client, clock>>

NextMerge == \E d \in Daemons : apply_set(d)

SpecMerge == InitMerge /\ [][NextMerge]_vars

\* ------------------------------------------------------------------------
\* The specification of the requests of a client: daemon 1 receives GET,
\* LIST, PUT, DELETE, LISTEN, FORGET, GOSSIP and CONNECTED messages
\* ------------------------------------------------------------------------

\* the texts of the parameter "priority" of a GET
PriorityTexts ==
    { {}, {<<"5", "0">>}, {<<"7", "0">>}, {<<"-", "1">>}
    , {<<"1", "0", "0">>}, {<<"x">>} }

NextGet ==
    \/ /\ steps < MaxGetSteps
       /\ \E wire_name \in {"a_b", "c", "zz"}, priority \in PriorityTexts,
             all \in {{}, {"true"}}, default_value \in {{}, {"true"}} :
                msg_get(1, Client1, wire_name, priority, all, default_value)
       /\ UNCHANGED <<script, todo, settings_file, client, clock>>
    \/ /\ steps < MaxGetSteps
       /\ msg_list(1, Client1)
       /\ UNCHANGED <<script, todo, settings_file, client, clock>>
    \/ /\ steps < MaxGetSteps
       /\ \E wire_name \in {"a_b", "c", "zz"}, v \in {<<"x">>, <<"x", ",">>},
             priority \in {{}, {60}, {100}} :
                msg_put(1, Client1, wire_name, v, priority, T1)
       /\ UNCHANGED <<script, todo, settings_file, client, clock>>
    \/ /\ steps < MaxGetSteps
       /\ \E wire_name \in {"a_b", "c", "zz"}, priority \in {{}, {60}, {70}, {100}} :
                msg_delete(1, Client1, wire_name, priority)
       /\ UNCHANGED <<script, todo, settings_file, client, clock>>
    \/ /\ steps < MaxGetSteps
       /\ \E names \in {<<"c">>, <<"zz">>} : msg_listen(1, Client1, names)
       /\ UNCHANGED <<script, todo, settings_file, client, clock>>
    \/ /\ steps < MaxGetSteps
       /\ msg_forget(1, Client1, DaemonService, <<"c">>)
       /\ UNCHANGED <<script, todo, settings_file, client, clock>>
    \/ /\ steps < MaxGetSteps
       /\ \E their_ip \in Daemons : msg_gossip(1, Client1, their_ip)
       /\ UNCHANGED <<script, todo, settings_file, client, clock>>
    \/ /\ steps < MaxGetSteps
       /\ \E their_ip \in Daemons : msg_connected(1, Client1, their_ip)
       /\ UNCHANGED <<script, todo, settings_file, client, clock>>

\* the records of the name c in the settings file the daemon loaded when it
\* started: none, or one at priority 50 and one at priority 60
GetPre ==
    { {}
    , { value_set_value(<<"x">>, 50, T0), value_set_value(<<"y", ",">>, 60, T0) } }

InitGet ==
    /\ \E pre \in GetPre :
          /\ InitDaemons(pre)
          /\ script = [NoScript EXCEPT !.pre = pre]
    /\ todo = script.calls

SpecGet == InitGet /\ [][NextGet]_vars

\* ------------------------------------------------------------------------
\* The specification of the records: daemon 1 loads a settings file, then
\* receives PUT and DELETE messages and the VALUE_CHANGED messages of a peer,
\* with priorities and timestamps in and out of range
\* ------------------------------------------------------------------------

\* a timestamp before g_oldest_fluid_setting
TOld == <<g_oldest_fluid_setting_date - 1, 0>>

\* one parameter of the settings file
FileParameter(name, priority, timestamp, v) ==
    [ name |-> name, priority |-> priority
    , value |-> to_nsec_string(timestamp) \o <<"|">> \o v ]

\* the settings files the daemon may find when it starts
LoadFiles ==
    { <<>>
    , << FileParameter("c", <<"5", "0">>, T0, <<"x">>) >>
    , << FileParameter("c", <<"5", "0">>, T1, <<"y">>)
       , FileParameter("c", <<"1", "0", "0">>, T1, <<"x">>) >>
    , << FileParameter("c", <<"6", "0">>, TOld, <<"x">>) >>
    , << [name |-> "c", priority |-> <<"5", "0">>, value |-> <<"x">>]
       , FileParameter("c", <<"b", "a", "d">>, T0, <<"y">>) >> }

\* the texts of the parameter "values" of the peer
RecordTexts ==
    { serialize_one(value_set_value(<<"y">>, 60, T1))
    , serialize_one(value_set_value(<<"y">>, 70, T1))
        \o serialize_one(value_set_value(<<"x">>, 100, T1))
    , serialize_one(value_set_value(<<"x">>, 0 - 1, T1))
    , serialize_one(value_set_value(<<"x">>, 60, TOld)) }

RecordMessages ==
    { [EmptyMessage EXCEPT !.command = "VALUE_CHANGED", !.name = {"c"}, !.values = {t}] :
            t \in RecordTexts }

\* the state of a settings object without a value
NoSettings ==
    [ values |-> <<>>, defined |-> [n \in Schema |-> FALSE]
    , listeners |-> <<>>, timer |-> NoSaveTimer, remote |-> FALSE
    , out |-> <<>>, bcast |-> <<>>, thrown |-> FALSE, ret |-> FALSE ]

\* server::prepare_settings(): a daemon whose load() throws does not run
InitRecords ==
    /\ \E file \in LoadFiles :
          LET st == settings_load(NoSettings, file)
          IN /\ f_values = [d \in Daemons |-> st.values]
             /\ f_defined = [d \in Daemons |-> st.defined]
             /\ running = [d \in Daemons |-> ~st.thrown]
    /\ f_listeners = [d \in Daemons |-> <<>>]
    /\ f_save_timer = [d \in Daemons |-> NoSaveTimer]
    /\ f_remote_change = [d \in Daemons |-> FALSE]
    /\ f_replicators = [d \in Daemons |-> <<>>]
    /\ links = [i \in LinkIds |-> NoLink]
    /\ chan = [i \in LinkIds |-> [toIn |-> <<>>, toOut |-> <<>>]]
    /\ out = <<>>
    /\ psent = <<>>
    /\ last = LastNone
    /\ steps = 0
    /\ settings_file = NoFiles
    /\ client = NoClient
    /\ clock = NoClock
    /\ script = NoScript
    /\ todo = script.calls

NextRecords ==
    \/ /\ steps < MaxSteps
       /\ \E priority \in {{}, {0 - 1}, {100}}, timestamp \in Stamps :
                msg_put(1, Client1, "c", <<"x">>, priority, timestamp)
       /\ UNCHANGED <<script, todo, settings_file, client, clock>>
    \/ /\ steps < MaxSteps
       /\ \E priority \in {{}, {100}} : msg_delete(1, Client1, "c", priority)
       /\ UNCHANGED <<script, todo, settings_file, client, clock>>
    \/ /\ steps < MaxSteps
       /\ process_accept_other(1)
       /\ UNCHANGED <<script, todo, settings_file, client, clock>>
    \/ /\ steps < MaxSteps
       /\ \E i \in LinkIds, m \in RecordMessages : peer_sends(i, m)
       /\ UNCHANGED <<script, todo, settings_file, client, clock>>
    \/ /\ \E k \in 1..Len(f_replicators[1]) : process_message(1, k)
       /\ UNCHANGED <<script, todo, settings_file, client, clock>>

SpecRecords == InitRecords /\ [][NextRecords]_vars

\* ------------------------------------------------------------------------
\* The specification of the listeners: server::listen() and
\* server::forget() of daemon 1 are called for two clients
\* ------------------------------------------------------------------------

\* the (server, service) of the calls
ListenerPairs == { <<"s1", "svc">>, <<"s2", "svc">> }

\* the lists of names of the calls, already normalised
ListenerNames == { <<>>, <<"c">>, <<"a-b", "c">>, <<"c", "zz">> }

\* a call of server::listen()
listen(d, ss, names) ==
    /\ running[d]
    /\ steps' = steps + 1
    /\ Commit( d
             , server_listen(Start(d), ss[1], ss[2], names)
             , chan
             , [LastNone EXCEPT !.cmd = "listen", !.from = ss
                              , !.names = split_string(names)])
    /\ UNCHANGED <<f_replicators, links>>

\* a call of server::forget()
forget(d, ss, names) ==
    /\ running[d]
    /\ steps' = steps + 1
    /\ Commit( d
             , server_forget(Start(d), ss[1], ss[2], names)
             , chan
             , [LastNone EXCEPT !.cmd = "forget", !.from = ss
                              , !.names = split_string(names)])
    /\ UNCHANGED <<f_replicators, links>>

NextListeners ==
    \/ /\ steps < MaxSubSteps
       /\ \E ss \in ListenerPairs, names \in ListenerNames : listen(1, ss, names)
       /\ UNCHANGED <<script, todo, settings_file, client, clock>>
    \/ /\ steps < MaxSubSteps
       /\ \E ss \in ListenerPairs, names \in ListenerNames : forget(1, ss, names)
       /\ UNCHANGED <<script, todo, settings_file, client, clock>>

SpecListeners == Init /\ [][NextListeners]_vars

\* ------------------------------------------------------------------------
\* The specification of the gossip: each daemon starts with the
\* FLUID_SETTINGS_GOSSIP messages the send_gossip() of the daemons put in
\* flight to it; the FLUID_SETTINGS_CONNECTED replies go to the daemon that
\* gossiped
\* ------------------------------------------------------------------------

GossipCall(their_ip) == [op |-> "GOSSIP", their_ip |-> their_ip]

ConnectedCall(their_ip) == [op |-> "CONNECTED", their_ip |-> their_ip]

\* the gossips in flight at the start: at most MaxGossip in all, each with
\* the address of a daemon (a daemon may receive its own gossip)
GossipScripts ==
    { [pre |-> {}, calls |-> c] :
        c \in { q \in [Daemons -> UNION { [1..n -> {GossipCall(a) : a \in Daemons}]
                                            : n \in 0..MaxGossip }] :
                    Len(q[1]) + Len(q[2]) <= MaxGossip } }

InitGossip ==
    /\ script \in GossipScripts
    /\ todo = script.calls
    /\ InitDaemons({})

\* daemon d receives the next FLUID_SETTINGS_GOSSIP in flight to it; its
\* reply is in flight to the daemon that sent the gossip
recv_gossip(d) ==
    /\ todo[d] # <<>>
    /\ Head(todo[d]).op = "GOSSIP"
    /\ msg_gossip(d, DaemonService, Head(todo[d]).their_ip)
    /\ LET sender == Head(todo[d]).their_ip
           popped == [todo EXCEPT ![d] = Tail(@)]
       IN todo' = [popped EXCEPT ![sender] = Append(@, ConnectedCall(d))]
    /\ UNCHANGED <<script, settings_file, client, clock>>

\* daemon d receives the next FLUID_SETTINGS_CONNECTED in flight to it
recv_connected(d) ==
    /\ todo[d] # <<>>
    /\ Head(todo[d]).op = "CONNECTED"
    /\ msg_connected(d, DaemonService, Head(todo[d]).their_ip)
    /\ todo' = [todo EXCEPT ![d] = Tail(@)]
    /\ UNCHANGED <<script, settings_file, client, clock>>

NextGossip ==
    \/ \E d \in Daemons : recv_gossip(d)
    \/ \E d \in Daemons : recv_connected(d)
    \/ /\ \E d \in Daemons, i \in LinkIds : process_accept(d, i)
       /\ UNCHANGED <<script, todo, settings_file, client, clock>>

SpecGossip == InitGossip /\ [][NextGossip]_vars

\* ------------------------------------------------------------------------
\* Properties
\* ------------------------------------------------------------------------

\* what get(name, HIGHEST, all=false) gives on daemon d
get_highest(d, name) ==
    settings_get_value(Start(d), name, HIGHEST_PRIORITY, FALSE)

\* what get(name, priority, all=false) gives on daemon d
get_at(d, name, priority) ==
    settings_get_value(Start(d), name, priority, FALSE)

\* the value set of name on daemon d
ValueSet(d, name) ==
    IF name \in DOMAIN f_values[d] THEN f_values[d][name] ELSE {}

\* the records of name on daemon d at priority p
RecordsAt(d, name, p) == {r \in ValueSet(d, name) : r.f_priority = p}

\* the scenario is over: the link between the daemons is established, every
\* PUT and DELETE was received and every peer message was delivered
Quiescent ==
    /\ Linked
    /\ \A d \in Daemons : todo[d] = <<>> /\ running[d]
    /\ \A i \in LinkIds : chan[i].toIn = <<>> /\ chan[i].toOut = <<>>

\* C1: peer convergence. Once daemon 1 accepted PUT(c, v1, 50, T1) and every
\* peer message is delivered, get(c) on daemon 2 returns v1; and when daemon
\* 2 also accepted PUT(c, v2, 50, T2) with T1 < T2, whether or not a record
\* at priority 50 existed before, both daemons return v2.
C1_PeerConvergence ==
    (Quiescent /\ script.calls[1] # <<>> /\ script.calls[1][1].op = "PUT")
        => IF script.calls[2] = <<>>
           THEN get_highest(2, "c") = <<"GET_RESULT_SUCCESS", script.calls[1][1].v>>
           ELSE \A d \in Daemons :
                    get_highest(d, "c") = <<"GET_RESULT_SUCCESS", script.calls[2][1].v>>

\* C2: a deletion converges. Once daemon 1 accepted a DELETE of (c, 50) that
\* removed a record and every peer message is delivered, daemon 2 holds the
\* same value set for c as daemon 1.
C2_DeleteConverges ==
    ( /\ Quiescent
      /\ script.pre # {}
      /\ script.calls[1] # <<>>
      /\ script.calls[1][1].op = "DELETE"
      /\ script.calls[2] = <<>> )
        => ValueSet(2, "c") = ValueSet(1, "c")

\* C3: last writer wins at one (name, priority). When a record (p, t1, v1) is
\* stored and a PUT applies set(n, v2, p, t2), the record at p afterwards is
\* (p, t2, v2) when t2 > t1 and the stored record when t2 = t1.
C3_LastWriterWins ==
    [][ ( /\ last'.cmd = "PUT"
          /\ last'.ret
          /\ RecordsAt(1, last'.name, last'.priority) # {} )
            => LET r == CHOOSE x \in RecordsAt(1, last'.name, last'.priority) : TRUE
                   after == {x \in f_values'[1][last'.name] :
                                    x.f_priority = last'.priority}
               IN /\ TsLess(r.f_timestamp, last'.timestamp)
                        => after = {value_set_value( last'.value
                                                   , last'.priority
                                                   , last'.timestamp)}
                  /\ r.f_timestamp = last'.timestamp => after = {r} ]_vars

\* C4: merge commutativity. When daemon 1 applied a sequence of set() calls
\* on one name and daemon 2 a permutation of it, serialize(name) is the same
\* text on both.
C4_MergeCommutes ==
    (\A d \in Daemons : todo[d] = <<>>)
        => serialize_value(f_values[1], "c") = serialize_value(f_values[2], "c")

\* C5: priority monotonicity of GET. In every state reached by PUT and
\* DELETE messages, for every name whose value set is not empty,
\* get(name, HIGHEST, all=false) succeeds with the value of the stored record
\* of the largest priority.
C5_GetHighest ==
    \A name \in Schema :
        ValueSet(1, name) # {}
            => \E r \in ValueSet(1, name) :
                    /\ \A x \in ValueSet(1, name) : x.f_priority <= r.f_priority
                    /\ get_highest(1, name) = <<"GET_RESULT_SUCCESS", r.f_value>>

\* C6: DELETE clears only the record at its priority (50 when the message
\* carries none). After a DELETE that reached reset(name, p), every record
\* of that name at another priority and every record of every other name,
\* which get returned at its own priority before, is unchanged and is still
\* returned by get at its own priority.
C6_DeleteFrame ==
    [][ (last'.cmd = "DELETE"
            /\ last'.priority >= MINIMUM_PRIORITY
            /\ last'.priority <= MAXIMUM_PRIORITY)
            => \A name \in Schema : \A r \in ValueSet(1, name) :
                    ( /\ <<name, r.f_priority>> # <<last'.name, last'.priority>>
                      /\ get_at(1, name, r.f_priority)
                                = <<"GET_RESULT_SUCCESS", r.f_value>> )
                        => /\ r \in ValueSet(1, name)'
                           /\ get_at(1, name, r.f_priority)'
                                = <<"GET_RESULT_SUCCESS", r.f_value>> ]_vars

\* the messages of the last handler addressed to the client ss
SentTo(ss) ==
    {i \in 1..Len(out) : out[i].server = ss[1] /\ out[i].service = ss[2]}

\* the subscribers of name on daemon d
Subscribers(d, name) ==
    IF name \in DOMAIN f_listeners[d] THEN f_listeners[d][name] ELSE {}

\* C7: no self-echo. When the handling of a VALUE_CHANGED message of a peer
\* changed the store, the handler sent nothing to any peer link, and it sent
\* every subscriber of the name a message with the value or the reason
\* "value undefined".
C7_NoSelfEcho ==
    (last.cmd = "VALUE_CHANGED" /\ last.changed)
        => /\ psent = <<>>
           /\ \A ss \in Subscribers(last.d, last.name) :
                \E i \in SentTo(ss) :
                    out[i].value # {} \/ out[i].message = {"value undefined"}

\* a VALUE_CHANGED of a peer changed the store of a daemon that has a
\* subscriber of the name and replicators to broadcast to
C7_Witness ==
    /\ last.cmd = "VALUE_CHANGED"
    /\ last.changed
    /\ Subscribers(last.d, last.name) # {}
    /\ f_replicators[last.d] # <<>>
    /\ out # <<>>

\* C8: subscriber fan-out. While (s1, svc) is subscribed to n, every
\* successful set(n, ...) of a PUT sends exactly one
\* FLUID_SETTINGS_VALUE_UPDATED addressed to (s1, svc), which carries the
\* name n and either the value or the reason "value undefined".
C8_FanOut ==
    (last.cmd = "PUT" /\ last.ret /\ Client1 \in Subscribers(1, last.name))
        => /\ Cardinality({i \in SentTo(Client1) :
                    out[i].command = "FLUID_SETTINGS_VALUE_UPDATED"}) = 1
           /\ \A i \in SentTo(Client1) :
                out[i].command = "FLUID_SETTINGS_VALUE_UPDATED"
                    => /\ out[i].name = {last.name}
                       /\ out[i].value # {} \/ out[i].message = {"value undefined"}

\* C9: LISTEN replay. For a LISTEN with the names n1..nk of a client whose
\* server and service are not empty the daemon sends, in this order, one
\* REGISTERED, with the message "already registered" exactly when listen()
\* returned true, then one VALUE_UPDATED per listed name in the order of the
\* list with either the value or an error, then one READY, which has the
\* parameter errcnt exactly when some name got no value, and errcnt is then
\* the number of those names.
C9_ListenReplay ==
    (last.cmd = "LISTEN" /\ last.from[1] # "" /\ last.from[2] # "")
        => LET k == Len(last.names)
               novalue == {i \in 1..k : out[i + 1].value = {}}
           IN /\ Len(out) = k + 2
              /\ \A i \in 1..(k + 2) :
                    out[i].server = last.from[1] /\ out[i].service = last.from[2]
              /\ out[1].command = "FLUID_SETTINGS_REGISTERED"
              /\ (out[1].message = {"already registered"}) <=> last.ret
              /\ ~last.ret => out[1].message = {}
              /\ \A i \in 1..k :
                    /\ out[i + 1].command = "FLUID_SETTINGS_VALUE_UPDATED"
                    /\ out[i + 1].name = {last.names[i]}
                    /\ (out[i + 1].value = {}) <=> (out[i + 1].error # {})
                    /\ out[i + 1].value # {}
                        => LET r == get_highest(1, last.names[i])
                           IN /\ r[1] \in {"GET_RESULT_SUCCESS", "GET_RESULT_DEFAULT"}
                              /\ out[i + 1].value = {r[2]}
              /\ out[k + 2].command = "FLUID_SETTINGS_READY"
              /\ IF novalue = {} THEN out[k + 2].errcnt = {}
                 ELSE out[k + 2].errcnt = {Cardinality(novalue)}

\* a LISTEN of two names or more, one with a value and one without, from a
\* client that was registered already
C9_Witness ==
    /\ last.cmd = "LISTEN"
    /\ last.from = Client1
    /\ last.ret
    /\ Len(last.names) >= 2
    /\ Len(out) = Len(last.names) + 2
    /\ \E i, j \in 1..Len(last.names) :
            /\ out[i + 1].value # {}
            /\ out[i + 1].default = {}
            /\ out[j + 1].error # {}
    /\ out[Len(out)].errcnt # {}

\* C10: subscriptions are destroyed on FORGET. After the daemon answered the
\* FORGET of a client for the names N, no subscription of that client exists
\* for any name of N.
C10_ForgetRemoves ==
    (last.cmd = "FORGET" /\ out # <<>> /\ out[1].command = "FLUID_SETTINGS_FORGET")
        => \A i \in 1..Len(last.names) :
                last.from \notin Subscribers(1, last.names[i])

\* ------------------------------------------------------------------------
\* Gossip
\* ------------------------------------------------------------------------

\* the links that were created, whatever their state
CreatedLinks == {i \in LinkIds : links[i].state # "none"}

\* no message of the gossip is in flight any more
ExchangeDone == \A d \in Daemons : todo[d] = <<>>

\* the run is one exchange: a single FLUID_SETTINGS_GOSSIP, sent to r
OneGossip(r) ==
    /\ Len(script.calls[r]) = 1
    /\ \A d \in Daemons \ {r} : script.calls[d] = <<>>

\* C11: two distinct listener addresses are ordered one way exactly, and
\* once one gossip exchange (a GOSSIP answered by a CONNECTED) is over,
\* exactly one outbound link exists, created by the daemon with the
\* smaller address towards the larger one; a daemon that received its own
\* address created no link.
C11_TieBreak ==
    /\ \A a, b \in Daemons : a # b => (addr_less(a, b) # addr_less(b, a))
    /\ \A r \in Daemons :
          (OneGossip(r) /\ ExchangeDone) =>
             LET g == script.calls[r][1].their_ip
                 lo == IF g < r THEN g ELSE r
                 hi == IF g < r THEN r ELSE g
             IN IF g = r
                THEN /\ CreatedLinks = {}
                     /\ f_replicators[r] = <<>>
                ELSE /\ Cardinality(CreatedLinks) = 1
                     /\ \A i \in CreatedLinks :
                           /\ links[i].out = lo
                           /\ links[i].in = hi
                           /\ \E k \in 1..Len(f_replicators[lo]) :
                                 f_replicators[lo][k] = <<"out", i>>
                     /\ \A k \in 1..Len(f_replicators[hi]) :
                           f_replicators[hi][k][1] # "out"

\* the exchange started by the daemon with the larger address is over and
\* the link that the smaller one created is accepted
C11_Witness ==
    /\ OneGossip(1)
    /\ script.calls[1][1].their_ip = 2
    /\ ExchangeDone
    /\ \E i \in LinkIds : links[i] = [NoLink EXCEPT !.state = "open", !.out = 1, !.in = 2]
    /\ last.cmd = "ACCEPT"

\* C12: however many FLUID_SETTINGS_GOSSIP and FLUID_SETTINGS_CONNECTED the
\* daemons exchanged, once no message is in flight and every connection is
\* accepted, at most one link exists between two daemons.
C12_LinkUnique ==
    (ExchangeDone /\ \A i \in CreatedLinks : links[i].state = "open") =>
        \A a, b \in Daemons :
            Cardinality({i \in CreatedLinks :
                            {links[i].out, links[i].in} = {a, b}}) <= 1

\* ------------------------------------------------------------------------
\* GET
\* ------------------------------------------------------------------------

\* the last message was a GET of the highest priority value of a name of
\* the schema (no priority or priority=-1, neither all nor default_value)
GotHighest(l) ==
    /\ l.cmd = "GET"
    /\ l.name \in Schema
    /\ l.text \in {{}, {<<"-", "1">>}}
    /\ ~l.all
    /\ ~l.default_value

\* the reply to a GET of a name without a record
FallbackReply(from, name) ==
    IF SchemaDefault(name) # {}
    THEN [reply_to(from) EXCEPT !.command = "FLUID_SETTINGS_DEFAULT_VALUE"
                              , !.name = {name}
                              , !.value = SchemaDefault(name)]
    ELSE [reply_to(from) EXCEPT !.command = "FLUID_SETTINGS_NOT_SET"
                              , !.name = {name}
                              , !.error = {"this setting is not set"}]

RecordAt(name, p) == CHOOSE r \in RecordsAt(1, name, p) : TRUE

\* a text with its commas escaped
EscapeCommas(v) == string_replace_many(v, << << <<",">>, <<"\\", ",">> >> >>)

\* C14: when a name holds one record at priority 50 and one at priority 60,
\* a GET is answered VALUE with the value at 60, a GET priority=50 VALUE
\* with the value at 50, a GET with a priority of [0,99] that holds no
\* record NOT_SET, and a GET all=true ALL_VALUES with the value at 50, a
\* comma and the value at 60, the commas of the values escaped.
C14_PriorityShadowing ==
    \A n \in Schema :
        ( /\ last.cmd = "GET"
          /\ last.name = n
          /\ ~last.default_value
          /\ \A s \in last.text : convert_string(s)[1]
          /\ ~(last.all /\ last.priority # HIGHEST_PRIORITY)
          /\ last.priority \in {HIGHEST_PRIORITY} \cup (MINIMUM_PRIORITY..MAXIMUM_PRIORITY)
          /\ Cardinality(ValueSet(1, n)) = 2
          /\ {r.f_priority : r \in ValueSet(1, n)} = {50, 60} )
        => LET m == [reply_to(last.from) EXCEPT !.name = {n}]
               value(v) == [m EXCEPT !.command = "FLUID_SETTINGS_VALUE", !.value = {v}]
           IN out = << CASE last.all ->
                                [m EXCEPT !.command = "FLUID_SETTINGS_ALL_VALUES"
                                        , !.values = { EscapeCommas(RecordAt(n, 50).f_value)
                                                        \o <<",">>
                                                        \o EscapeCommas(RecordAt(n, 60).f_value) }]
                         [] ~last.all /\ last.priority = HIGHEST_PRIORITY ->
                                value(RecordAt(n, 60).f_value)
                         [] ~last.all /\ last.priority \in {50, 60} ->
                                value(RecordAt(n, last.priority).f_value)
                         [] OTHER ->
                                [m EXCEPT !.command = "FLUID_SETTINGS_NOT_SET"
                                        , !.error = {"no value at the requested priority"}] >>

\* the last message was a GET, a PUT or a DELETE that reached the settings
\* (its parameters passed the checks of the handler) with the name of l
ReachedSettings(l) ==
    \/ /\ l.cmd = "GET"
       /\ \A s \in l.text : convert_string(s)[1]
       /\ (IF l.all THEN 1 ELSE 0)
            + (IF l.default_value THEN 1 ELSE 0)
            + (IF l.priority # HIGHEST_PRIORITY THEN 1 ELSE 0) <= 1
    \/ /\ l.cmd \in {"PUT", "DELETE"}
       /\ l.priority >= MINIMUM_PRIORITY
       /\ l.priority <= MAXIMUM_PRIORITY

\* C15: a GET, a PUT or a DELETE of a name that no definition declares
\* fails (GET is answered NOT_SET 'no parameter named', set and reset return
\* false, the PUT is not answered UPDATED and the DELETE deleted nothing),
\* creates no record, leaves the options, the listeners and the save timer
\* as they were, and sends nothing but its reply: no message to a listener
\* and none to a peer.
C15_SchemaGating ==
    [][ (ReachedSettings(last') /\ last'.name \in UnknownNames) =>
            /\ ~last'.ret
            /\ f_values' = f_values
            /\ f_defined' = f_defined
            /\ f_listeners' = f_listeners
            /\ f_save_timer' = f_save_timer
            /\ \A d \in Daemons : \A n \in UnknownNames : ValueSet(d, n)' = {}
            /\ psent' = <<>>
            /\ Len(out') = 1
            /\ out'[1].server = last'.from[1]
            /\ out'[1].service = last'.from[2]
            /\ CASE last'.cmd = "GET" ->
                        /\ out'[1].command = "FLUID_SETTINGS_NOT_SET"
                        /\ out'[1].error = {"no parameter named"}
                 [] last'.cmd = "PUT" ->
                        out'[1].command = "INVALID"
                 [] last'.cmd = "DELETE" ->
                        /\ out'[1].command = "FLUID_SETTINGS_DELETED"
                        /\ out'[1].message = {"nothing was deleted"} ]_vars

\* a client that listens to the undeclared name sent a valid PUT of that
\* name and received the reply only
C15_Witness ==
    /\ last.cmd = "PUT"
    /\ last.name \in UnknownNames
    /\ ReachedSettings(last)
    /\ last.name \in DOMAIN f_listeners[1]
    /\ Client1 \in f_listeners[1][last.name]
    /\ Len(out) = 1
    /\ ~f_save_timer[1].enabled

\* ------------------------------------------------------------------------
\* Records
\* ------------------------------------------------------------------------

\* C16: in every state, whatever the settings file loaded and the PUT,
\* DELETE and peer VALUE_CHANGED messages handled, every stored record has a
\* priority in [0,99] and a timestamp that is not before
\* 2022-07-21T00:00:00Z.
C16_RecordsInRange ==
    \A d \in Daemons : \A name \in DOMAIN f_values[d] : \A r \in f_values[d][name] :
        /\ r.f_priority >= MINIMUM_PRIORITY
        /\ r.f_priority <= MAXIMUM_PRIORITY
        /\ ~TsLess(r.f_timestamp, g_oldest_fluid_setting)

\* a peer message whose first line is valid and whose second line has the
\* priority 100 was handled: the first record is stored, the second is not
C16_Witness ==
    /\ last.cmd = "VALUE_CHANGED"
    /\ last.value = serialize_one(value_set_value(<<"y">>, 70, T1))
                        \o serialize_one(value_set_value(<<"x">>, 100, T1))
    /\ RecordsAt(1, "c", 70) # {}
    /\ RecordsAt(1, "c", 100) = {}

\* ------------------------------------------------------------------------
\* PUT
\* ------------------------------------------------------------------------

\* two PUT in a row of one name of the schema at one valid priority, the
\* first of which stored its record
TwoPuts ==
    /\ last.cmd = "PUT"
    /\ last'.cmd = "PUT"
    /\ last.name \in Schema
    /\ last'.name = last.name
    /\ last'.priority = last.priority
    /\ last.priority >= MINIMUM_PRIORITY
    /\ last.priority <= MAXIMUM_PRIORITY
    /\ ~TsLess(last'.timestamp, g_oldest_fluid_setting)
    /\ RecordsAt(1, last.name, last.priority)
            = { value_set_value(last.value, last.priority, last.timestamp) }

\* the value stored at the priority of the two PUT is the value of the
\* first one
FirstValueKept ==
    \A r \in RecordsAt(1, last.name, last.priority)' : r.f_value = last.value

\* C17: set(n, v1, p, t) followed by set(n, v2, p, t-1) leaves v1 at
\* priority p and the second PUT is answered UPDATED with the reason
\* 'unchanged'; set(n, v2, p, t-1) followed by set(n, v1, p, t) leaves v2.
C17_EqualPriority ==
    [][ (TwoPuts /\ last'.value # last.value) =>
            /\ TsLess(last'.timestamp, last.timestamp) =>
                    /\ FirstValueKept
                    /\ out' # <<>>
                    /\ out'[Len(out')] =
                            [reply_to(last'.from) EXCEPT
                                  !.command = "FLUID_SETTINGS_UPDATED"
                                , !.name = {last'.name}
                                , !.reason = {"unchanged"}]
            /\ TsLess(last.timestamp, last'.timestamp) => FirstValueKept ]_vars

\* the reason of a PUT of value v at priority p with the timestamp t for the
\* records the name holds
ExpectedReason(name, v, p, t) ==
    IF ValueSet(1, name) = {} THEN "new"
    ELSE IF RecordsAt(1, name, p) = {} THEN "new priority"
    ELSE LET r == CHOOSE x \in RecordsAt(1, name, p) : TRUE
         IN IF ~TsLess(r.f_timestamp, t) THEN "unchanged"
            ELSE IF r.f_value = v THEN "newer"
            ELSE "changed"

\* C18: a PUT of a name of the schema with a priority in [0,99] and a valid
\* timestamp is answered UPDATED with the name and the reason: 'new' when the
\* name had no record, 'new priority' when it had none at that priority,
\* 'unchanged' when the timestamp is not newer than the stored one, 'newer'
\* when it is newer and the value is equal, 'changed' when it is newer and
\* the value differs.
C18_PutReason ==
    [][ ( /\ last'.cmd = "PUT"
          /\ last'.name \in Schema
          /\ last'.priority >= MINIMUM_PRIORITY
          /\ last'.priority <= MAXIMUM_PRIORITY
          /\ ~TsLess(last'.timestamp, g_oldest_fluid_setting) )
        => /\ out' # <<>>
           /\ out'[Len(out')] =
                [reply_to(last'.from) EXCEPT
                      !.command = "FLUID_SETTINGS_UPDATED"
                    , !.name = {last'.name}
                    , !.reason = { ExpectedReason( last'.name, last'.value
                                                 , last'.priority, last'.timestamp) }] ]_vars

\* ------------------------------------------------------------------------
\* Replies
\* ------------------------------------------------------------------------

\* the replies of the last handler: the messages sent to the sender of the
\* request, the notifications of server::value_changed() aside
Replies ==
    { k \in 1..Len(out) :
        /\ out[k].server = last.from[1]
        /\ out[k].service = last.from[2]
        /\ out[k].command # "NEW_VALUE" }

\* C19: the handler of a GET, PUT, DELETE, LIST, FORGET, GOSSIP or CONNECTED
\* message, whatever its parameters, sent exactly one reply to the sender.
C19_OneReply ==
    last.cmd \in {"GET", "PUT", "DELETE", "LIST", "FORGET", "GOSSIP", "CONNECTED"}
        => Cardinality(Replies) = 1

\* the last message carried a priority outside of [0,99] which, for a GET,
\* is an integer other than HIGHEST_PRIORITY
OutOfRange(l) ==
    /\ l.cmd \in {"GET", "PUT", "DELETE"}
    /\ l.cmd = "GET" => /\ l.text # {}
                        /\ \A t \in l.text : convert_string(t)[1]
                        /\ l.priority # HIGHEST_PRIORITY
    /\ \/ l.priority < MINIMUM_PRIORITY
       \/ l.priority > MAXIMUM_PRIORITY

\* C20: a GET, PUT or DELETE whose priority is outside of [0,99] (and not
\* -1 for a GET) is answered INVALID with the command and a message, and
\* the records, the options, the listeners and the save timer are as they
\* were before.
C20_PriorityRange ==
    [][ OutOfRange(last') =>
            /\ Len(out') = 1
            /\ out'[1].command = "INVALID"
            /\ out'[1].server = last'.from[1]
            /\ out'[1].service = last'.from[2]
            /\ out'[1].cmd = {"FLUID_SETTINGS_" \o last'.cmd}
            /\ out'[1].message # {}
            /\ f_values' = f_values
            /\ f_defined' = f_defined
            /\ f_listeners' = f_listeners
            /\ f_save_timer' = f_save_timer ]_vars

\* ------------------------------------------------------------------------
\* listen() and forget()
\* ------------------------------------------------------------------------

\* the subscribers of name in the map listeners
SubscribersIn(listeners, name) ==
    IF name \in DOMAIN listeners THEN listeners[name] ELSE {}

\* C21: a LISTEN of a client is reported 'already registered' (listen()
\* returned true) exactly when the client was subscribed already to at least
\* one of the listed names, and afterwards the client is subscribed to every
\* listed name.
C21_ListenResult ==
    [][ (last'.cmd = "LISTEN" /\ last'.from[1] # "" /\ last'.from[2] # "") =>
            /\ last'.ret = (\E i \in 1..Len(last'.names) :
                                last'.from \in SubscribersIn(f_listeners[1], last'.names[i]))
            /\ out' # <<>>
            /\ (out'[1].message = {"already registered"}) = last'.ret
            /\ \A i \in 1..Len(last'.names) :
                    last'.from \in SubscribersIn(f_listeners'[1], last'.names[i]) ]_vars

\* C22: forget(server, service, names) returns true exactly when the pair
\* (server, service) was not subscribed to at least one of the listed
\* names; it returns false when every listed subscription existed, and
\* those subscriptions are removed whether or not the names keep other
\* subscribers.
C22_ForgetResult ==
    [][ last'.cmd = "forget" =>
            /\ last'.ret = (\E i \in 1..Len(last'.names) :
                                last'.from \notin SubscribersIn(f_listeners[1], last'.names[i]))
            /\ \A i \in 1..Len(last'.names) :
                    last'.from \notin SubscribersIn(f_listeners'[1], last'.names[i]) ]_vars

\* ------------------------------------------------------------------------
\* The serialized records of one setting, sent back through VALUE_CHANGED
\*
\* Daemon 1 starts with a store drawn from RoundTripStores, daemon 2 with
\* an empty one; a peer sends each of them serialize_value() of that store.
\* ------------------------------------------------------------------------

MaxValueLen == 2

\* the characters of the values: the four that serialize_value() escapes
\* and two letters of the escape sequences
RoundTripChars == {"|", "\\", "\n", "\r", "n", "P"}

RoundTripValues ==
    UNION { [1..n -> RoundTripChars] : n \in 0..MaxValueLen }

RoundTripStores ==
    { [n \in {"c"} |-> {value_set_value(v, 50, T0)}] : v \in RoundTripValues }
    \cup { [n \in {"c"} |-> { value_set_value(v, 50, T0)
                            , value_set_value(<<"\n", "|">>, 60, <<T1[1], 7>>) }] :
                v \in RoundTripValues }

\* the VALUE_CHANGED message that carries serialize_value(name) of a store
RoundTripMessage(store, name) ==
    [EmptyMessage EXCEPT !.command = "VALUE_CHANGED", !.name = {name}
                       , !.values = {serialize_value(store, name)}]

InitRoundTrip ==
    /\ \E store \in RoundTripStores :
          /\ f_values = [d \in Daemons |-> IF d = 1 THEN store ELSE <<>>]
          /\ f_defined = [d \in Daemons |-> [n \in Schema |-> d = 1 /\ n \in DOMAIN store]]
          /\ script = [NoScript EXCEPT !.pre = store]
    /\ f_listeners = [d \in Daemons |-> <<>>]
    /\ f_save_timer = [d \in Daemons |-> NoSaveTimer]
    /\ f_remote_change = [d \in Daemons |-> FALSE]
    /\ f_replicators = [d \in Daemons |-> <<>>]
    /\ running = [d \in Daemons |-> TRUE]
    /\ links = [i \in LinkIds |-> NoLink]
    /\ chan = [i \in LinkIds |-> [toIn |-> <<>>, toOut |-> <<>>]]
    /\ out = <<>>
    /\ psent = <<>>
    /\ last = LastNone
    /\ steps = 0
    /\ settings_file = NoFiles
    /\ client = NoClient
    /\ clock = NoClock
    /\ todo = script.calls

NextRoundTrip ==
    \/ /\ steps < MaxSteps
       /\ \E d \in Daemons : process_accept_other(d)
       /\ UNCHANGED <<script, todo, settings_file, client, clock>>
    \/ /\ steps < MaxSteps
       /\ \E i \in LinkIds : peer_sends(i, RoundTripMessage(script.pre, "c"))
       /\ UNCHANGED <<script, todo, settings_file, client, clock>>
    \/ /\ \E d \in Daemons : \E k \in 1..Len(f_replicators[d]) : process_message(d, k)
       /\ UNCHANGED <<script, todo, settings_file, client, clock>>

SpecRoundTrip == InitRoundTrip /\ [][NextRoundTrip]_vars

\* the daemon that handled the last VALUE_CHANGED
Receiver == IF last.cmd = "VALUE_CHANGED" THEN links[last.link].in ELSE 0

settings_save(values) ==
    LET records(name) ==
            IF name \in DOMAIN values THEN set_in_order(values[name]) ELSE <<>>
        parameters(name) ==
            [i \in 1..Len(records(name)) |->
                FileParameter( name
                             , to_string(records(name)[i].f_priority)
                             , records(name)[i].f_timestamp
                             , records(name)[i].f_value )]
        cat[i \in 0..Len(SchemaOrder)] ==
            IF i = 0 THEN <<>> ELSE cat[i - 1] \o parameters(SchemaOrder[i])
    IN cat[Len(SchemaOrder)]

\* server::save_settings(), the callback of the save timer
save_settings(d) ==
    /\ running[d]
    /\ steps' = steps + 1
    /\ settings_file' = [settings_file EXCEPT
                            ![script.settings] = settings_save(f_values[d])]
    /\ script' = [script EXCEPT !.pre = f_values[d]]
    /\ last' = [LastNone EXCEPT !.cmd = "save", !.d = d]
    /\ out' = <<>>
    /\ psent' = <<>>
    /\ UNCHANGED << f_values, f_defined, f_listeners, f_save_timer
                  , f_remote_change, f_replicators, running, links, chan, todo
                  , client, clock >>

\* server::prepare_settings() of a daemon that starts: the definitions are
\* loaded, then the settings file; an exception of load() ends the daemon
prepare_settings(d) ==
    /\ ~running[d]
    /\ steps' = steps + 1
    /\ LET st == settings_load(NoSettings, settings_file[g_settings_file])
       IN /\ f_values' = [f_values EXCEPT ![d] = st.values]
          /\ f_defined' = [f_defined EXCEPT ![d] = st.defined]
          /\ running' = [running EXCEPT ![d] = ~st.thrown]
    /\ f_listeners' = [f_listeners EXCEPT ![d] = <<>>]
    /\ f_save_timer' = [f_save_timer EXCEPT ![d] = NoSaveTimer]
    /\ f_remote_change' = [f_remote_change EXCEPT ![d] = FALSE]
    /\ last' = [LastNone EXCEPT !.cmd = "load", !.d = d]
    /\ out' = <<>>
    /\ psent' = <<>>
    /\ UNCHANGED <<f_replicators, links, chan, script, todo, settings_file, client, clock>>

\* the values the clients put
SaveValues == {<<>>, <<"|", "\\">>, <<"\n", "\r">>}

InitSave ==
    /\ f_values = [d \in Daemons |-> <<>>]
    /\ f_defined = [d \in Daemons |-> [n \in Schema |-> FALSE]]
    /\ f_listeners = [d \in Daemons |-> <<>>]
    /\ f_save_timer = [d \in Daemons |-> NoSaveTimer]
    /\ f_remote_change = [d \in Daemons |-> FALSE]
    /\ f_replicators = [d \in Daemons |-> <<>>]
    /\ running = [d \in Daemons |-> d = 1]
    /\ links = [i \in LinkIds |-> NoLink]
    /\ chan = [i \in LinkIds |-> [toIn |-> <<>>, toOut |-> <<>>]]
    /\ out = <<>>
    /\ psent = <<>>
    /\ last = LastNone
    /\ steps = 0
    /\ settings_file = NoFiles
    /\ client = NoClient
    /\ clock = NoClock
    /\ script = [NoScript EXCEPT !.pre = <<>>]
    /\ todo = script.calls

NextSave ==
    \/ /\ steps < MaxStoreSteps
       /\ \E wire_name \in {"c", "a_b"}, v \in SaveValues, priority \in {{}, {0}} :
                msg_put(1, Client1, wire_name, v, priority, <<T1[1], 7>>)
       /\ UNCHANGED <<script, todo, settings_file, client, clock>>
    \/ /\ steps < MaxStoreSteps
       /\ msg_delete(1, Client1, "c", {})
       /\ UNCHANGED <<script, todo, settings_file, client, clock>>
    \/ /\ steps < MaxStoreSteps
       /\ save_settings(1)
    \/ /\ steps < MaxStoreSteps
       /\ \E d \in Daemons : prepare_settings(d)

SpecSave == InitSave /\ [][NextSave]_vars

C25_Broadcast ==
    (last.cmd \in {"PUT", "DELETE"} /\ last.changed) =>
        /\ Len(psent) = 1
        /\ psent[1].to = "all"
        /\ psent[1].msg.command = "VALUE_CHANGED"
        /\ psent[1].msg.name = {last.name}
        /\ psent[1].msg.values = {serialize_value(f_values[last.d], last.name)}

\* ------------------------------------------------------------------------
\* fluid_settings_connection.cpp: the handlers of the session
\* ------------------------------------------------------------------------

MaxClientSteps == 4

\* a qualification that returns the name as it was given
qualify_name_as_is(name) == name

\* fluid_settings_connection::qualify_name()
qualify_name(name) ==
    IF \E i \in 1..Len(name) : name[i] = ":"
    THEN name
    ELSE ServiceName \o <<":", ":">> \o name

\* the names the callers of the session use
WatchNames ==
    { <<"d">>, <<"s">>, <<"b", ":", ":", "d">>, <<"o", ":", ":", "d">>
    , <<"x", ":", "d">> }

\* the order of std::set<std::string> on the qualified names of the model
WatchOrder ==
    << <<"b", ":", ":", "d">>, <<"b", ":", ":", "s">>
     , <<"o", ":", ":", "d">>, <<"x", ":", "d">> >>

\* the session when a handler starts: nothing sent, no callback made
ClientStart == [client EXCEPT !.sent = <<>>, !.callbacks = <<>>]

\* send_message(): the message leaves for the daemon
send_message(c, msg) ==
    [c EXCEPT !.sent = Append(@, msg), !.wire = Append(@, msg)]

\* fluid_settings_connection::listen(); the parameter cache = "no;reply"
\* is for the communicator and is left out
client_listen(c, watches) ==
    send_message(c, [EmptyMessage EXCEPT !.command = "FLUID_SETTINGS_LISTEN"
                                       , !.service = "fluid_settings"
                                       , !.names = {watches}])

\* fluid_settings_connection::stop_timer()
stop_timer(c, name) ==
    IF name \in DOMAIN c.f_timer
    THEN [c EXCEPT !.timers = @ \ {<<c.f_timer[name], name>>}
                 , !.f_timer = map_erase(@, name)]
    ELSE c

\* fluid_settings_connection::fluid_settings_changed(): the callback of
\* the user, who calls the base class function
fluid_settings_changed(c, status, name, value) ==
    LET c1 == [c EXCEPT !.callbacks =
                    Append(@, [status |-> status, name |-> name, value |-> value])
                      , !.up_ready = IF status = "READY" THEN @ + 1 ELSE @]
    IN IF name # <<>> THEN stop_timer(c1, name) ELSE c1

\* an add_watch() that sends a LISTEN for every call
client_add_watch_always(c, name) ==
    client_listen([c EXCEPT !.f_watches = @ \cup {qualify_name(name)}], qualify_name(name))

\* fluid_settings_connection::add_watch()
client_add_watch(c, name) ==
    LET watch == qualify_name(name)
        c1 == [c EXCEPT !.f_watches = @ \cup {watch}]
    IN IF watch \notin c.f_watches /\ c.f_registered
       THEN client_listen(c1, watch)
       ELSE c1

\* fluid_settings_connection::service_status()
client_service_status(c, service, status) ==
    IF service # "fluid_settings" THEN c
    ELSE LET c1 == [c EXCEPT !.f_registered = (status = "up")
                           , !.up_ready = IF c.f_registered /\ status = "up"
                                          THEN @ ELSE 0]
         IN IF ~c1.f_registered THEN [c1 EXCEPT !.f_ready = FALSE]
            ELSE IF c1.f_watches = {}
                THEN fluid_settings_changed(
                        [c1 EXCEPT !.f_ready = TRUE], "READY", <<>>, <<>>)
            ELSE client_listen(
                      c1
                    , join_strings(
                            SelectSeq(WatchOrder, LAMBDA n : n \in c1.f_watches)
                          , <<",">>))

\* the variables of the daemons
daemon_vars ==
    << f_values, f_defined, f_listeners, f_save_timer, f_remote_change
     , f_replicators, running, links, chan, out, psent, script, todo
     , settings_file, clock >>

\* a call of add_watch()
add_watch(name) ==
    /\ steps' = steps + 1
    /\ client' = client_add_watch(ClientStart, name)
    /\ last' = [LastNone EXCEPT !.cmd = "add_watch", !.value = name]
    /\ UNCHANGED daemon_vars

\* the STATUS message of the communicator about a service
service_status(service, status) ==
    /\ steps' = steps + 1
    /\ client' = client_service_status(ClientStart, service, status)
    /\ last' = [LastNone EXCEPT !.cmd = "service_status", !.name = service
                              , !.text = {status}]
    /\ UNCHANGED daemon_vars

\* fluid_settings_connection::unregister_fluid_settings(); the UNREGISTER
\* that unregister_communicator() sends goes to the communicator daemon
client_unregister_fluid_settings(c) == [c EXCEPT !.f_registered = FALSE]

\* a call of unregister_fluid_settings()
unregister_fluid_settings ==
    /\ steps' = steps + 1
    /\ client' = client_unregister_fluid_settings(ClientStart)
    /\ last' = [LastNone EXCEPT !.cmd = "unregister"]
    /\ UNCHANGED daemon_vars

\* fluid_settings_connection::start_timer(): a new fluid_settings_timer
\* named `name` is added to the communicator and f_timer[name] is set to
\* it; a timer that f_timer[name] held before stays in the communicator
start_timer(c, name) ==
    [c EXCEPT !.timers = @ \cup {<<c.next_id, name>>}
            , !.f_timer = map_put(@, name, c.next_id)
            , !.next_id = @ + 1]

\* fluid_settings_connection::get_settings_value() and
\* get_settings_value_with_priority(): priority is a set, empty for the
\* former
client_get_settings_value(c, name, priority) ==
    start_timer(
          send_message(c, [EmptyMessage EXCEPT !.command = "FLUID_SETTINGS_GET"
                                             , !.service = "fluid_settings"
                                             , !.name = {qualify_name(name)}
                                             , !.priority = priority])
        , name)

\* fluid_settings_connection::msg_fluid_ready()
msg_fluid_ready(c, msg) ==
    fluid_settings_changed(
          [c EXCEPT !.f_ready = TRUE]
        , "READY"
        , <<>>
        , IF msg.error = {} THEN <<>> ELSE CHOOSE e \in msg.error : TRUE)

\* fluid_settings_connection::msg_fluid_registered()
msg_fluid_registered(c, msg) ==
    fluid_settings_changed(c, "REGISTERED", <<>>, <<>>)

\* fluid_settings_connection::msg_fluid_value()
msg_fluid_value(c, msg) ==
    IF msg.name = {} \/ msg.value = {} THEN c
    ELSE fluid_settings_changed( c, "VALUE"
                               , CHOOSE n \in msg.name : TRUE
                               , CHOOSE v \in msg.value : TRUE)

\* fluid_settings_connection::msg_fluid_value_updated()
msg_fluid_value_updated(c, msg) ==
    IF msg.name = {} THEN c
    ELSE LET name == CHOOSE n \in msg.name : TRUE
             intro == ServiceName \o <<":", ":">>
             opt_name == IF IsPrefix(intro, name)
                         THEN SubSeq(name, Len(intro) + 1, Len(name))
                         ELSE name
         IN IF msg.value # {}
            THEN LET value == CHOOSE v \in msg.value : TRUE
                 IN fluid_settings_changed(
                          IF opt_name \in LocalOptions /\ opt_name \in DynamicOptions
                          THEN [c EXCEPT !.options[opt_name] = value]
                          ELSE c
                        , "NEW_VALUE", name, value)
            ELSE IF msg.error # {}
                THEN fluid_settings_changed(c, "UNDEFINED", name, <<>>)
            ELSE c

\* fluid_settings_connection::msg_fluid_timeout()
msg_fluid_timeout(c, name) ==
    fluid_settings_changed(c, "TIMEOUT", name, <<>>)

\* the matches the constructor adds to the dispatcher, for the replies to
\* LISTEN and GET
client_dispatch(c, msg) ==
    CASE msg.command = "FLUID_SETTINGS_READY" -> msg_fluid_ready(c, msg)
      [] msg.command = "FLUID_SETTINGS_REGISTERED" -> msg_fluid_registered(c, msg)
      [] msg.command = "FLUID_SETTINGS_VALUE" -> msg_fluid_value(c, msg)
      [] msg.command = "FLUID_SETTINGS_VALUE_UPDATED" -> msg_fluid_value_updated(c, msg)
      [] OTHER -> c

\* the names the daemon has no definition of
DaemonUnknown == {<<"x", ":", "d">>}

\* the replies of messenger::msg_listen() of the daemon to a LISTEN of
\* the session, every defined name having the value "1": REGISTERED, one
\* VALUE_UPDATED per name, READY
listen_replies(msg) ==
    LET names == CHOOSE n \in msg.names : TRUE
        split_names == SelectSeq(tokenize_string(names, ","), LAMBDA n : n # <<>>)
        errcnt == Cardinality({i \in 1..Len(split_names) : split_names[i] \in DaemonUnknown})
        current_value(n) ==
            IF n \in DaemonUnknown
            THEN [EmptyMessage EXCEPT !.command = "FLUID_SETTINGS_VALUE_UPDATED"
                                    , !.name = {n}
                                    , !.error = {"no parameter named"}]
            ELSE [EmptyMessage EXCEPT !.command = "FLUID_SETTINGS_VALUE_UPDATED"
                                    , !.name = {n}
                                    , !.value = {<<"1">>}
                                    , !.message = {"current value"}]
    IN << [EmptyMessage EXCEPT !.command = "FLUID_SETTINGS_REGISTERED"] >>
        \o [i \in 1..Len(split_names) |-> current_value(split_names[i])]
        \o << [EmptyMessage EXCEPT !.command = "FLUID_SETTINGS_READY"
                                 , !.errcnt = IF errcnt > 0 THEN {errcnt} ELSE {}] >>

\* the reply of messenger::msg_get() of the daemon to a GET of a set value
get_replies(msg) ==
    << [EmptyMessage EXCEPT !.command = "FLUID_SETTINGS_VALUE"
                          , !.name = msg.name
                          , !.value = {<<"1">>}] >>

\* a call of get_settings_value() or get_settings_value_with_priority();
\* requests remembers each call, at the index of the identifier of its
\* timer: the name given, whether its reply came, whether it came before
\* a timeout, and the TIMEOUT callbacks its timer made
get_settings_value(name, priority) ==
    /\ steps' = steps + 1
    /\ client' = [client_get_settings_value(ClientStart, name, priority) EXCEPT
                    !.requests = Append(@, [ name |-> name, answered |-> FALSE
                                           , replied_first |-> FALSE
                                           , timeouts |-> 0 ])]
    /\ last' = [LastNone EXCEPT !.cmd = "get_settings_value", !.value = name]
    /\ UNCHANGED daemon_vars

\* fluid_settings_timer::process_timeout() of the timer t = <<id, name>>;
\* an ed::timer ticks until it is removed from the communicator
process_timeout(t) ==
    /\ steps' = steps + 1
    /\ t \in client.timers
    /\ client' = [msg_fluid_timeout(ClientStart, t[2]) EXCEPT
                    !.requests[t[1]].timeouts = @ + 1]
    /\ last' = [LastNone EXCEPT !.cmd = "process_timeout", !.value = t[2]
                              , !.link = t[1]]
    /\ UNCHANGED daemon_vars

\* the daemon handles the oldest message of the session and replies
daemon_handles ==
    /\ client.wire # <<>>
    /\ client' = [client EXCEPT
                    !.wire = Tail(@)
                  , !.inbox = @ \o (IF Head(client.wire).command = "FLUID_SETTINGS_LISTEN"
                                    THEN listen_replies(Head(client.wire))
                                    ELSE get_replies(Head(client.wire)))]
    /\ last' = [LastNone EXCEPT !.cmd = "daemon"]
    /\ UNCHANGED <<daemon_vars, steps>>

\* the requests a reply to a GET of `name` can answer
Outstanding(c, msg) ==
    { id \in 1..Len(c.requests) :
          /\ msg.command = "FLUID_SETTINGS_VALUE"
          /\ ~c.requests[id].answered
          /\ msg.name = {qualify_name(c.requests[id].name)} }

\* the session reads the oldest reply: the dispatcher calls its handler
message_received ==
    /\ client.inbox # <<>>
    /\ LET msg == Head(client.inbox)
           c == client_dispatch([ClientStart EXCEPT !.inbox = Tail(@)], msg)
           ids == Outstanding(client, msg)
       IN /\ client' =
                IF ids = {} THEN c
                ELSE [c EXCEPT !.requests[Min(ids)].answered = TRUE
                             , !.requests[Min(ids)].replied_first =
                                    (c.requests[Min(ids)].timeouts = 0)]
          /\ last' = [LastNone EXCEPT
                          !.cmd = "received"
                        , !.name = msg.command
                        , !.value = IF msg.name = {} THEN <<>>
                                    ELSE CHOOSE n \in msg.name : TRUE
                        , !.names = IF msg.value = {} THEN <<>>
                                    ELSE CHOOSE v \in msg.value : TRUE
                        , !.ret = (msg.value # {})]
    /\ UNCHANGED <<daemon_vars, steps>>

NextClient ==
    \/ /\ steps < MaxClientSteps
       /\ \E name \in WatchNames : add_watch(name)
    \/ /\ steps < MaxClientSteps
       /\ \E service \in {"fluid_settings", "other"}, status \in {"up", "down"} :
                service_status(service, status)
    \/ /\ steps < MaxClientSteps
       /\ \E name \in {<<"d">>, <<"o", ":", ":", "d">>}, priority \in {{}, {50}} :
                get_settings_value(name, priority)
    \/ /\ steps < MaxClientSteps
       /\ \E t \in client.timers : process_timeout(t)
    \/ /\ steps < MaxClientSteps
       /\ unregister_fluid_settings
    \/ daemon_handles
    \/ message_received

SpecClient == Init /\ [][NextClient]_vars

\* the messages of a command among those the last handler sent
SentOf(command) == SelectSeq(client.sent, LAMBDA m : m.command = command)

\* the name holds the character that qualify_name() looks for
HasNamespace(name) == \E k \in 1..Len(name) : name[k] = ":"

ListenedNames(msg) ==
    UNION { { tokenize_string(names, ",")[k] :
                    k \in 1..Len(tokenize_string(names, ",")) } \ {<<>>} :
                names \in msg.names }

\* C26: when the status of the fluid_settings service becomes up the
\* session sends exactly one LISTEN whose names are all the names added so
\* far by add_watch; add_watch of a new name while the service is up sends
\* one LISTEN for that name only; add_watch while the service is not up,
\* or of a name already watched, sends nothing.
C26_Registration ==
    [][ /\ ( /\ last'.cmd = "service_status"
             /\ last'.name = "fluid_settings"
             /\ last'.text = {"up"}
             /\ client.f_watches # {} )
           => /\ Len(client'.sent) = 1
              /\ client'.sent[1].command = "FLUID_SETTINGS_LISTEN"
              /\ ListenedNames(client'.sent[1]) = client.f_watches
        /\ last'.cmd = "add_watch"
           => IF client.f_registered /\ qualify_name(last'.value) \notin client.f_watches
              THEN /\ Len(client'.sent) = 1
                   /\ client'.sent[1].command = "FLUID_SETTINGS_LISTEN"
                   /\ client'.sent[1].names = {qualify_name(last'.value)}
              ELSE client'.sent = <<>> ]_vars

C26_Witness ==
    /\ last.cmd = "service_status"
    /\ last.text = {"up"}
    /\ Len(client.sent) = 1
    /\ ListenedNames(client.sent[1]) = client.f_watches
    /\ Cardinality(client.f_watches) = 3

\* C27: READY fires exactly once per period during which the service is
\* up, over any sequence of status messages, add_watch calls and replies.
C27_ReadyOnce == client.up_ready <= 1

\* C28: every get_settings_value call ends in one of two ways: its reply
\* arrives first, its timer is removed and no TIMEOUT is delivered for it;
\* or its timer fires, exactly one TIMEOUT callback is delivered and the
\* timer is removed.
C28_Timers ==
    \A id \in 1..Len(client.requests) :
        LET r == client.requests[id]
            alive == <<id, r.name>> \in client.timers
        IN /\ r.replied_first => (~alive /\ r.timeouts = 0)
           /\ r.timeouts <= 1
           /\ r.timeouts = 1 => ~alive

\* C29: a VALUE_UPDATED that carries a value is written to the local
\* option only when its name, with the prefix b:: removed, is the dynamic
\* option d; the option s, which is not dynamic, and the options of other
\* names are left as they are; the NEW_VALUE callback is made in all cases.
C29_Overlay ==
    [][ ( /\ last'.cmd = "received"
          /\ last'.name = "FLUID_SETTINGS_VALUE_UPDATED"
          /\ last'.ret )
        => /\ client'.options[<<"d">>] =
                    IF last'.value \in {<<"d">>, <<"b", ":", ":", "d">>}
                    THEN last'.names
                    ELSE client.options[<<"d">>]
           /\ client'.options[<<"s">>] = client.options[<<"s">>]
           /\ DOMAIN client'.options = LocalOptions
           /\ client'.callbacks =
                    << [status |-> "NEW_VALUE", name |-> last'.value
                       , value |-> last'.names] >> ]_vars

C29_Witness ==
    /\ last.cmd = "received"
    /\ last.name = "FLUID_SETTINGS_VALUE_UPDATED"
    /\ last.value = <<"b", ":", ":", "s">>
    /\ last.ret
    /\ client.options[<<"d">>] = <<"1">>
    /\ client.options[<<"s">>] = <<"0">>
    /\ client.callbacks = << [ status |-> "NEW_VALUE"
                             , name |-> <<"b", ":", ":", "s">>
                             , value |-> <<"1">> ] >>

C31_ReadyImpliesRegistered == client.f_ready => client.f_registered

\* ------------------------------------------------------------------------
\* replicator_out.cpp: the error counter of an outbound link
\* ------------------------------------------------------------------------

REPLICATOR_ERROR_LIMIT == 10

\* a count_errors() that gives up one failure later
count_errors_late(l) ==
    IF l.f_errors + 1 > REPLICATOR_ERROR_LIMIT
    THEN [l EXCEPT !.f_errors = @ + 1, !.state = "removed"]
    ELSE [l EXCEPT !.f_errors = @ + 1, !.state = "connecting"]

\* replicator_out::count_errors(), with what the caller does of its result:
\* at the limit the connection is removed from ed::communicator, below it
\* the function of tcp_client_permanent_message_connection runs, which
\* closes the socket and tries to connect again
count_errors(l) ==
    IF l.f_errors + 1 >= REPLICATOR_ERROR_LIMIT
    THEN [l EXCEPT !.f_errors = @ + 1, !.state = "removed"]
    ELSE [l EXCEPT !.f_errors = @ + 1, !.state = "connecting"]

\* replicator_out::reset_errors()
reset_errors(l) == [l EXCEPT !.f_errors = 0]

\* the events ed::communicator sends to the connections it holds
InEventLoop(i) == links[i].state \in {"connecting", "open"} /\ links[i].out # 0

\* replicator_out::process_error(), process_hup() and process_invalid()
hard_failure(i, event) ==
    /\ InEventLoop(i)
    /\ links' = [links EXCEPT ![i] = [count_errors(links[i]) EXCEPT !.failures = @ + 1]]
    /\ out' = <<>>
    /\ psent' = <<>>
    /\ last' = [LastNone EXCEPT !.cmd = event, !.d = links[i].out, !.link = i]
    /\ UNCHANGED << f_values, f_defined, f_listeners, f_save_timer
                  , f_remote_change, f_replicators, running, chan, steps >>

process_error(i) == hard_failure(i, "process_error")

process_hup(i) == hard_failure(i, "process_hup")

process_invalid(i) == hard_failure(i, "process_invalid")

\* replicator_out::process_connected(): the connection to the listener of
\* the other daemon is made
process_connected(i) ==
    /\ InEventLoop(i)
    /\ links[i].state = "connecting"
    /\ links' = [links EXCEPT ![i] = [reset_errors(links[i]) EXCEPT
                                            !.state = "open", !.failures = 0]]
    /\ out' = <<>>
    /\ psent' = <<>>
    /\ last' = [LastNone EXCEPT !.cmd = "process_connected", !.d = links[i].out
                              , !.link = i]
    /\ UNCHANGED << f_values, f_defined, f_listeners, f_save_timer
                  , f_remote_change, f_replicators, running, chan, steps >>

\* daemon 1 hears the gossip of daemon 2 and of a daemon at address 3, and
\* its outbound links fail and connect in any order
NextErrors ==
    \/ /\ steps < MaxSteps
       /\ \E their_ip \in {2, 3} : msg_gossip(1, DaemonService, their_ip)
       /\ UNCHANGED <<script, todo, settings_file, client, clock>>
    \/ /\ \E i \in LinkIds : process_error(i)
       /\ UNCHANGED <<script, todo, settings_file, client, clock>>
    \/ /\ \E i \in LinkIds : process_hup(i)
       /\ UNCHANGED <<script, todo, settings_file, client, clock>>
    \/ /\ \E i \in LinkIds : process_invalid(i)
       /\ UNCHANGED <<script, todo, settings_file, client, clock>>
    \/ /\ \E i \in LinkIds : process_connected(i)
       /\ UNCHANGED <<script, todo, settings_file, client, clock>>

SpecErrors == Init /\ [][NextErrors]_vars

\* C32: each hard failure of an outbound link (error, hangup, invalid)
\* increments its counter, a successful connect resets it to 0, the counter
\* never exceeds 10, and the connection is out of the event loop exactly
\* when 10 failures occurred with no successful connect in between, after
\* which nothing happens on it any more.
C32_ErrorCounter ==
    [][ \A i \in LinkIds :
          /\ links'[i].f_errors <= REPLICATOR_ERROR_LIMIT
          /\ links'[i].f_errors = links'[i].failures
          /\ (links'[i].state = "removed") <=> (links'[i].failures = REPLICATOR_ERROR_LIMIT)
          /\ (last'.link = i /\ last'.cmd \in {"process_error", "process_hup", "process_invalid"})
                => links'[i].f_errors = links[i].f_errors + 1
          /\ (last'.link = i /\ last'.cmd = "process_connected")
                => links'[i].f_errors = 0
          /\ links[i].state = "removed" => links'[i] = links[i] ]_vars

C32_Witness ==
    /\ \E i \in LinkIds : links[i].state = "removed" /\ links[i].f_errors = 10
    /\ \E i \in LinkIds : /\ links[i].state = "open"
                          /\ links[i].f_errors = 0
                          /\ last.cmd = "process_connected"
                          /\ last.link = i

\* ------------------------------------------------------------------------
\* gossip_timer.cpp, save_timer.h, server.cpp: the timers of a daemon
\* ------------------------------------------------------------------------

\* server::send_gossip()
send_gossip(st, d) ==
    [st EXCEPT !.out = Append(@, [EmptyMessage EXCEPT
                                      !.command = "FLUID_SETTINGS_GOSSIP"
                                    , !.my_ip = {d}])]

\* messenger::ready(): the READY of the communicator
ready(d) ==
    /\ running[d]
    /\ steps' = steps + 1
    /\ Commit(d, send_gossip(Start(d), d), chan, [LastNone EXCEPT !.cmd = "READY"])
    /\ UNCHANGED <<f_replicators, links, clock>>

\* an ed::timer that is enabled and whose timeout date is reached
SaveTimerDue(d) == f_save_timer[d].enabled /\ f_save_timer[d].left = 0

GossipTimerDue(d) == clock[d].gossip_enabled /\ clock[d].gossip_left = 0

\* one tick of the clock while ed::communicator::run() of daemon d waits:
\* the timeout date of each enabled timer comes one tick closer
tick(d) ==
    /\ running[d]
    /\ ~SaveTimerDue(d)
    /\ ~GossipTimerDue(d)
    /\ f_save_timer' = [f_save_timer EXCEPT ![d].left =
                            IF f_save_timer[d].enabled THEN @ - 1 ELSE @]
    /\ clock' = [clock EXCEPT
                    ![d].gossip_left = IF clock[d].gossip_enabled THEN @ - 1 ELSE @
                  , ![d].since_save = IF @ < SaveTimeout THEN @ + 1 ELSE @
                  , ![d].now = (@ + 1) % (GossipTimeout + 1)]
    /\ out' = <<>>
    /\ psent' = <<>>
    /\ last' = [LastNone EXCEPT !.cmd = "tick", !.d = d]
    /\ UNCHANGED << f_values, f_defined, f_listeners, f_remote_change
                  , f_replicators, running, links, chan, steps >>

\* gossip_timer::process_timeout(); an ed::timer starts its delay again
gossip_timer_process_timeout(d) ==
    /\ GossipTimerDue(d)
    /\ Commit(d, send_gossip(Start(d), d), chan, [LastNone EXCEPT !.cmd = "gossip_timeout"])
    /\ clock' = [clock EXCEPT ![d].gossip_left = GossipTimeout]
    /\ UNCHANGED <<settings_file>>

\* save_timer::process_timeout(): server::save_settings() is called and the
\* timer disables itself
save_timer_process_timeout(d) ==
    /\ SaveTimerDue(d)
    /\ settings_file' = [settings_file EXCEPT
                            ![script.settings] = settings_save(f_values[d])]
    /\ f_save_timer' = [f_save_timer EXCEPT ![d] = NoSaveTimer]
    /\ clock' = [clock EXCEPT ![d].since_save = 0]
    /\ out' = <<>>
    /\ psent' = <<>>
    /\ last' = [LastNone EXCEPT !.cmd = "save", !.d = d]
    /\ UNCHANGED << f_values, f_defined, f_listeners, f_remote_change
                  , running, chan >>

\* ed::communicator::run() of daemon d calls process_timeout() of a timer
\* that is due
run_timers(d) ==
    /\ running[d]
    /\ \/ save_timer_process_timeout(d)
       \/ gossip_timer_process_timeout(d)
    /\ UNCHANGED <<f_replicators, links, steps>>

Ticks == tick(1) /\ UNCHANGED <<script, todo, settings_file, client>>

RunTimers == run_timers(1) /\ UNCHANGED <<script, todo, client>>

\* daemon 1 receives READY, PUT and DELETE while its clock ticks and its
\* timers fire
NextTimers ==
    \/ /\ steps < MaxSteps
       /\ ready(1)
       /\ UNCHANGED <<script, todo, settings_file, client>>
    \/ /\ steps < MaxSteps
       /\ \E v \in Values, timestamp \in {T0, T1} :
                msg_put(1, Client1, "c", v, {}, timestamp)
       /\ UNCHANGED <<script, todo, settings_file, client, clock>>
    \/ /\ steps < MaxSteps
       /\ msg_delete(1, Client1, "c", {})
       /\ UNCHANGED <<script, todo, settings_file, client, clock>>
    \/ Ticks
    \/ RunTimers

\* the clock ticks and ed::communicator::run() serves the timers that are
\* due for as long as the daemon runs
SpecTimers ==
    Init /\ [][NextTimers]_vars /\ WF_vars(Ticks) /\ WF_vars(RunTimers)

\* the last handler sent a FLUID_SETTINGS_GOSSIP
GossipSent == \E i \in 1..Len(out) : out[i].command = "FLUID_SETTINGS_GOSSIP"

\* C33: gossip is periodic: while the daemon runs, the gossip timer rearms
\* itself and the daemon emits FLUID_SETTINGS_GOSSIP with its listener
\* address infinitely often.
C33_PeriodicGossip == []<>(running[1] => GossipSent)

\* the last handler was a PUT or a DELETE that called value_changed()
Mutated == last.cmd \in {"PUT", "DELETE"} /\ last.ret

C35_NoEmptyEntry ==
    \A d \in Daemons : \A n \in DOMAIN f_listeners[d] : f_listeners[d][n] # {}

\* ------------------------------------------------------------------------
\* The specification of the malformed lines: a peer sends VALUE_CHANGED
\* messages of two lines, one of which is malformed, to daemon 1
\* ------------------------------------------------------------------------

\* one line of the parameter "values"
ValueLine(priority, timestamp, v) ==
    priority \o <<FIELD_SEPARATOR>> \o timestamp \o <<FIELD_SEPARATOR>> \o v
        \o <<VALUE_SEPARATOR>>

\* the malformed lines: two fields, a priority and a timestamp that are
\* not integers, a priority above MAXIMUM_PRIORITY, a timestamp before
\* g_oldest_fluid_setting
MalformedLines ==
    { <<"6", "0">> \o <<FIELD_SEPARATOR>> \o <<"x">> \o <<VALUE_SEPARATOR>>
    , ValueLine(<<"p">>, to_nsec_string(T1), <<"x">>)
    , ValueLine(<<"6", "0">>, <<"t">>, <<"x">>)
    , ValueLine(<<"1", "0", "0">>, to_nsec_string(T1), <<"x">>)
    , ValueLine(<<"6", "0">>, to_nsec_string(TOld), <<"x">>) }

\* the line of a record the daemon accepts
GoodLine == ValueLine(<<"7", "0">>, to_nsec_string(T1), <<"y">>)

MalformedMessages ==
    { [EmptyMessage EXCEPT !.command = "VALUE_CHANGED", !.name = {"c"}, !.values = {t}] :
            t \in {l \o GoodLine : l \in MalformedLines}
                    \cup {GoodLine \o l : l \in MalformedLines} }

NextMalformed ==
    \/ /\ steps < MaxSteps
       /\ process_accept_other(1)
       /\ UNCHANGED <<script, todo, settings_file, client, clock>>
    \/ /\ steps < MaxSteps
       /\ \E i \in LinkIds, m \in MalformedMessages : peer_sends(i, m)
       /\ UNCHANGED <<script, todo, settings_file, client, clock>>
    \/ /\ \E k \in 1..Len(f_replicators[1]) : process_message(1, k)
       /\ UNCHANGED <<script, todo, settings_file, client, clock>>

SpecMalformed == Init /\ [][NextMalformed]_vars

\* C36: in a peer VALUE_CHANGED a malformed line (wrong number of fields,
\* non-integer priority or timestamp, priority outside [0,99], timestamp
\* before the sanity floor) is skipped and the other line of the message is
\* still applied, whether it comes before or after the malformed line: the
\* daemon runs on and holds the record of priority 70, and no record of
\* another priority.
C36_SkipMalformed ==
    last.cmd = "VALUE_CHANGED" =>
        /\ running[last.d]
        /\ RecordsAt(last.d, "c", 70) # {}
        /\ ValueSet(last.d, "c") = RecordsAt(last.d, "c", 70)

\* C37: the defined state of the option of a name and the value table agree
\* in every state of a running daemon: the name is defined exactly when its
\* value set is not empty, so that get_value() never returns
\* GET_RESULT_ERROR, whatever the PUT (accepted or rejected) and DELETE
\* messages handled.
C37_DefinedAgrees ==
    \A d \in Daemons : running[d] =>
        \A name \in Schema :
            /\ f_defined[d][name] <=> ValueSet(d, name) # {}
            /\ settings_get_value(Start(d), name, HIGHEST_PRIORITY, FALSE)[1]
                    # "GET_RESULT_ERROR"

\* what a GET of name answers at each priority and at the highest priority,
\* for the values and the defined states given
GetAnswers(values, defined, name) ==
    [ p \in {HIGHEST_PRIORITY} \cup MINIMUM_PRIORITY..MAXIMUM_PRIORITY |->
        settings_get_value( [Start(1) EXCEPT !.values = values, !.defined = defined]
                          , name, p, FALSE ) ]

\* C38: a DELETE of a known name that removes nothing (no record at the
\* given priority) is answered DELETED with the message 'nothing was
\* deleted' and changes nothing: a GET of that name, at any priority and at
\* the highest priority, returns afterwards what it returned before, and no
\* notification or peer message is sent.
C38_DeleteNothing ==
    [][ ( /\ last'.cmd = "DELETE"
          /\ last'.name \in Schema
          /\ last'.priority >= MINIMUM_PRIORITY
          /\ last'.priority <= MAXIMUM_PRIORITY
          /\ RecordsAt(1, last'.name, last'.priority) = {} )
        => /\ out' = << [reply_to(last'.from) EXCEPT
                              !.command = "FLUID_SETTINGS_DELETED"
                            , !.name = {last'.name}
                            , !.message = {"nothing was deleted"}] >>
           /\ psent' = <<>>
           /\ f_values' = f_values
           /\ GetAnswers(f_values'[1], f_defined'[1], last'.name)
                = GetAnswers(f_values[1], f_defined[1], last'.name) ]_vars

\* C39: a PUT whose timestamp is not newer than the record stored at its
\* priority has no effect: the store is unchanged, no NEW_VALUE or
\* VALUE_UPDATED goes to a subscriber, no message goes to a peer link and
\* the save timer is left as it was.
C39_UnchangedNoEffect ==
    [][ \A d \in Daemons :
          ( /\ last'.cmd = "PUT"
            /\ last'.d = d
            /\ \E r \in RecordsAt(d, last'.name, last'.priority) :
                    ~TsLess(r.f_timestamp, last'.timestamp) )
          => /\ f_values' = f_values
             /\ \A i \in 1..Len(out') :
                    out'[i].command \notin {"NEW_VALUE", "FLUID_SETTINGS_VALUE_UPDATED"}
             /\ chan' = chan
             /\ f_save_timer' = f_save_timer ]_vars

(***************************************************************************)
(* The restart of a daemon: the file the save timer writes is the one      *)
(* named by the option --settings, the file prepare_settings() loads is    *)
(* the default one.                                                        *)
(***************************************************************************)

\* server::restart(): the daemon stops with exit code 1 and the service
\* manager starts it again, which runs prepare_settings()
restart(d) ==
    /\ running[d]
    /\ steps' = steps + 1
    /\ running' = [running EXCEPT ![d] = FALSE]
    /\ last' = [LastNone EXCEPT !.cmd = "restart", !.d = d]
    /\ out' = <<>>
    /\ psent' = <<>>
    /\ UNCHANGED << f_values, f_defined, f_listeners, f_save_timer
                  , f_remote_change, f_replicators, links, chan, script, todo
                  , settings_file, client, clock >>

\* one daemon started with any value of the option --settings
InitRestart ==
    /\ f_values = [d \in Daemons |-> <<>>]
    /\ f_defined = [d \in Daemons |-> [n \in Schema |-> FALSE]]
    /\ f_listeners = [d \in Daemons |-> <<>>]
    /\ f_save_timer = [d \in Daemons |-> NoSaveTimer]
    /\ f_remote_change = [d \in Daemons |-> FALSE]
    /\ f_replicators = [d \in Daemons |-> <<>>]
    /\ running = [d \in Daemons |-> d = 1]
    /\ links = [i \in LinkIds |-> NoLink]
    /\ chan = [i \in LinkIds |-> [toIn |-> <<>>, toOut |-> <<>>]]
    /\ out = <<>>
    /\ psent = <<>>
    /\ last = LastNone
    /\ steps = 0
    /\ settings_file = NoFiles
    /\ client = NoClient
    /\ clock = NoClock
    /\ \E f \in SettingsFiles :
          script = [NoScript EXCEPT !.pre = <<>>, !.settings = f]
    /\ todo = script.calls

NextRestart ==
    \/ /\ steps < MaxStoreSteps
       /\ \E wire_name \in {"c", "a_b"}, v \in Values, priority \in {{}, {0}} :
                msg_put(1, Client1, wire_name, v, priority, T1)
       /\ UNCHANGED <<script, todo, settings_file, client, clock>>
    \/ /\ steps < MaxStoreSteps
       /\ msg_delete(1, Client1, "c", {})
       /\ UNCHANGED <<script, todo, settings_file, client, clock>>
    \/ /\ steps < MaxStoreSteps
       /\ save_settings(1)
    \/ /\ steps < MaxStoreSteps
       /\ restart(1)
    \/ /\ steps < MaxStoreSteps
       /\ prepare_settings(1)

SpecRestart == InitRestart /\ [][NextRestart]_vars

\* C40: whatever the value of the option --settings, a daemon that is
\* restarted after a save starts with exactly the store that was saved:
\* the file loaded at startup is the file the save timer wrote.
C40_RestartKeepsStore ==
    (last.cmd = "load" /\ running[1]) => f_values[1] = script.pre

====
